---- MODULE Spec2Model ----
(***************************************************************************)
(* A model of the 2D rigid-body physics engine: RigidBody integration, the *)
(* ForceRegistry, PhysicsWorld.step with its collision detector, entity    *)
(* construction, and the AABB narrow-phase algorithms.                     *)
(*                                                                         *)
(* JavaScript numbers are modelled as exact rationals <<n, d>> in lowest   *)
(* terms with d > 0, extended by the IEEE special values: <<1, 0>> is      *)
(* +Infinity, <<-1, 0>> is -Infinity and <<0, 0>> is NaN.  A property that *)
(* is `undefined' behaves as NaN in arithmetic and comparisons and is      *)
(* modelled by NaN.  Rounding and the sign of zero are not modelled.       *)
(***************************************************************************)
EXTENDS Integers, Sequences, FiniteSets, TLC

VARIABLES
    body,            \* body id -> the RigidBody object's fields
    bodies,          \* PhysicsWorld.bodies: sequence of body ids
    forceBodyPairs,  \* ForceRegistry.forceBodyPairs: body id -> sequence of force ids
    ops,             \* number of completed (non-throwing) calls
    last,            \* the last call: operation, arguments, outcome, state before it
    entity,          \* the PhysicsEntity under construction / constructed
    det,             \* inputs and result of the last narrow-phase detect call
    material,        \* the Material object's fields
    sim              \* the Runner with its Timer, its EventEmitter and the frames requested

vars == <<body, bodies, forceBodyPairs, ops, last, entity, det, material, sim>>

----------------------------------------------------------------------------
(* Numbers *)

AbsI(i) == IF i < 0 THEN -i ELSE i
SgnI(i) == IF i > 0 THEN 1 ELSE IF i < 0 THEN -1 ELSE 0

RECURSIVE Gcd(_, _)
Gcd(a, b) == IF b = 0 THEN a ELSE Gcd(b, a % b)

Norm(n, d) ==
    IF d = 0 THEN <<SgnI(n), 0>>
    ELSE LET g == Gcd(AbsI(n), AbsI(d))
         IN  <<(SgnI(d) * n) \div g, AbsI(d) \div g>>

NaN  == <<0, 0>>
PInf == <<1, 0>>
NInf == <<-1, 0>>
R(i) == <<i, 1>>
Q(n, d) == Norm(n, d)
Zero == R(0)
One  == R(1)

IsNaN(a)    == a = NaN
IsFinite(a) == a[2] # 0

Neg(a) == <<-a[1], a[2]>>

Add(a, b) ==
    IF a = NaN \/ b = NaN THEN NaN
    ELSE IF a[2] = 0 /\ b[2] = 0 THEN (IF a = b THEN a ELSE NaN)
    ELSE IF a[2] = 0 THEN a
    ELSE IF b[2] = 0 THEN b
    ELSE LET g == Gcd(a[2], b[2])
         IN  Norm(a[1] * (b[2] \div g) + b[1] * (a[2] \div g), (a[2] \div g) * b[2])

Sub(a, b) == Add(a, Neg(b))

Mul(a, b) ==
    IF a[2] = 0 \/ b[2] = 0 THEN Norm(SgnI(a[1]) * SgnI(b[1]), 0)
    ELSE LET g1 == Gcd(AbsI(a[1]), b[2])
             g2 == Gcd(AbsI(b[1]), a[2])
         IN  <<(a[1] \div g1) * (b[1] \div g2), (a[2] \div g2) * (b[2] \div g1)>>

Inv(a) ==
    IF a = NaN THEN NaN
    ELSE IF a[2] = 0 THEN Zero
    ELSE IF a[1] = 0 THEN PInf
    ELSE Norm(a[2], a[1])

Div(a, b) == Mul(a, Inv(b))

Lt(a, b) ==
    IF a = NaN \/ b = NaN \/ a = b THEN FALSE
    ELSE IF a = NInf \/ b = PInf THEN TRUE
    ELSE IF a = PInf \/ b = NInf THEN FALSE
    ELSE a[1] * b[2] < b[1] * a[2]

Le(a, b) == a # NaN /\ b # NaN /\ (a = b \/ Lt(a, b))
Gt(a, b) == Lt(b, a)
Ge(a, b) == Le(b, a)

MathMin(a, b) == IF a = NaN \/ b = NaN THEN NaN ELSE IF Lt(b, a) THEN b ELSE a
MathMax(a, b) == IF a = NaN \/ b = NaN THEN NaN ELSE IF Lt(a, b) THEN b ELSE a
MathAbs(a)    == <<AbsI(a[1]), a[2]>>

\* Resolution of an inexact square root: results are rounded down to 1/SqrtScale.
SqrtScale == 4

\* floor of the square root of a natural number, by bisection of lo..hi
RECURSIVE ISqrtIn(_, _, _)
ISqrtIn(n, lo, hi) ==
    IF hi - lo <= 1 THEN lo
    ELSE LET mid == (lo + hi) \div 2
         IN  IF mid * mid <= n THEN ISqrtIn(n, mid, hi) ELSE ISqrtIn(n, lo, mid)
ISqrt(n) == ISqrtIn(n, 0, IF n < 46340 THEN n + 1 ELSE 46341)
IsSquare(n) == ISqrt(n) * ISqrt(n) = n

MathSqrt(a) ==
    IF a = NaN \/ a = NInf THEN NaN
    ELSE IF a = PInf THEN PInf
    ELSE IF a[1] < 0 THEN NaN
    ELSE IF IsSquare(a[1]) /\ IsSquare(a[2]) THEN <<ISqrt(a[1]), ISqrt(a[2])>>
    ELSE Norm(ISqrt((a[1] * SqrtScale * SqrtScale) \div a[2]), SqrtScale)

----------------------------------------------------------------------------
(* Vector *)

Vector(x, y) == [x |-> x, y |-> y]
V(i, j) == Vector(R(i), R(j))
ZeroVec == V(0, 0)
NaNVec  == Vector(NaN, NaN)

magnitude(v) == MathSqrt(Add(Mul(v.x, v.x), Mul(v.y, v.y)))
add(v, o) == Vector(Add(v.x, o.x), Add(v.y, o.y))
subtract(v, o) == Vector(Sub(v.x, o.x), Sub(v.y, o.y))
multiply(v, s) == Vector(Mul(s, v.x), Mul(s, v.y))
dot(v, o) == Add(Mul(v.x, o.x), Mul(v.y, o.y))
cross(v, o) == Sub(Mul(v.x, o.y), Mul(v.y, o.x))
normalizeBy(v, m) ==
    IF m = Zero THEN ZeroVec ELSE Vector(Div(v.x, m), Div(v.y, m))
normalize(v) == normalizeBy(v, magnitude(v))
lengthSquared(v) == Add(Mul(v.x, v.x), Mul(v.y, v.y))
VecFinite(v) == IsFinite(v.x) /\ IsFinite(v.y)

\* Math.cos / Math.sin: exact at 0, NaN for a non-finite angle, and the
\* truncated series 1 - a^2/2 and a - a^3/6 elsewhere.
MathCos(a) == IF ~IsFinite(a) THEN NaN ELSE Sub(One, Div(Mul(a, a), R(2)))
MathSin(a) == IF ~IsFinite(a) THEN NaN ELSE Sub(a, Div(Mul(a, Mul(a, a)), R(6)))

\* Vector.rotate(angle) about the origin
rotateBy(v, cos, sin) ==
    Vector(Sub(Mul(v.x, cos), Mul(v.y, sin)), Add(Mul(v.x, sin), Mul(v.y, cos)))
rotate(v, angle) == rotateBy(v, MathCos(angle), MathSin(angle))

----------------------------------------------------------------------------
(* Shapes attached to a rigid body (body.shape), read by CollisionDectector *)

NoShape == [type |-> "NONE", position |-> ZeroVec, width |-> Zero,
            height |-> Zero, parent |-> 0, center |-> ZeroVec, radius |-> Zero]

\* new RectangleShape(width, height, position) with setParent(parent)
RectangleShape(width, height, position, parent) ==
    [type |-> "RECTANGLE", position |-> position, width |-> width,
     height |-> height, parent |-> parent, center |-> ZeroVec, radius |-> Zero]

\* new CircleShape(radius, center) with setParent(parent)
CircleShape(radius, center, parent) ==
    [type |-> "CIRCLE", position |-> ZeroVec, width |-> Zero,
     height |-> Zero, parent |-> parent, center |-> center, radius |-> radius]

\* new TrapezoidShape(width, height, slope, position)
TrapezoidShape(width, height, slope, position) ==
    [type |-> "TRAPEZOID", position |-> position, width |-> width,
     height |-> height, slope |-> slope, parent |-> 0]

\* TrapezoidShape: bottomWidth = width + 2 * slope * height
bottomWidth(s) == Add(s.width, Mul(Mul(R(2), s.slope), s.height))

\* TrapezoidShape.getVertices
getVertices(s) ==
    << Vector(Sub(s.position.x, Div(s.width, R(2))), Sub(s.position.y, Div(s.height, R(2)))),
       Vector(Add(s.position.x, Div(s.width, R(2))), Sub(s.position.y, Div(s.height, R(2)))),
       Vector(Add(s.position.x, Div(bottomWidth(s), R(2))), Add(s.position.y, Div(s.height, R(2)))),
       Vector(Sub(s.position.x, Div(bottomWidth(s), R(2))), Add(s.position.y, Div(s.height, R(2)))) >>

\* TrapezoidShape.getAABB
trapezoidAABB(s, maxWidth) ==
    [minX |-> Sub(s.position.x, Div(maxWidth, R(2))),
     minY |-> Sub(s.position.y, Div(s.height, R(2))),
     maxX |-> Add(s.position.x, Div(maxWidth, R(2))),
     maxY |-> Add(s.position.y, Div(s.height, R(2)))]

\* RectangleShape.getAABB, TrapezoidShape.getAABB, and CircleShape.getAABB,
\* which returns zeros
getAABB(s) ==
    IF s.type = "CIRCLE"
    THEN [minX |-> Zero, minY |-> Zero, maxX |-> Zero, maxY |-> Zero]
    ELSE IF s.type = "TRAPEZOID"
    THEN trapezoidAABB(s, MathMax(s.width, bottomWidth(s)))
    ELSE [minX |-> s.position.x, minY |-> s.position.y,
          maxX |-> Add(s.position.x, s.width), maxY |-> Add(s.position.y, s.height)]

----------------------------------------------------------------------------
(* RigidBody *)

\* new RigidBody(mass, position, momentOfInertia).  inverseMass,
\* inverseInertia, restitution and shape are not set by the constructor.
RigidBody(mass, position, momentOfInertia) ==
    [mass |-> mass, position |-> position, momentOfInertia |-> momentOfInertia,
     velocity |-> ZeroVec, forceAccumulator |-> ZeroVec, rotation |-> Zero,
     angularVelocity |-> Zero, torqueAccumulator |-> Zero,
     linearDamping |-> Q(99, 100), angularDamping |-> Q(99, 100),
     inverseMass |-> NaN, inverseInertia |-> NaN, restitution |-> NaN,
     shape |-> NoShape]

addForce(b, force) == [b EXCEPT !.forceAccumulator = add(@, force)]

addTorque(b, torque) == [b EXCEPT !.torqueAccumulator = Add(@, torque)]

clearAccumulators(b) ==
    [b EXCEPT !.forceAccumulator = ZeroVec, !.torqueAccumulator = Zero]

\* integrate with the position advanced by the damped velocity
integrateDampedPosition(b, dt) ==
    LET acceleration == multiply(b.forceAccumulator, Div(One, b.mass))
        angularAcceleration == Div(b.torqueAccumulator, b.momentOfInertia)
        velocity2 == multiply(add(b.velocity, multiply(acceleration, dt)), b.linearDamping)
        angularVelocity2 == Mul(Add(b.angularVelocity, Mul(angularAcceleration, dt)),
                                b.angularDamping)
    IN  clearAccumulators(
            [b EXCEPT !.velocity = velocity2,
                      !.position = add(b.position, multiply(velocity2, dt)),
                      !.angularVelocity = angularVelocity2,
                      !.rotation = Add(b.rotation, Mul(angularVelocity2, dt))])

\* RigidBody.integrate(dt) for dt > 0 (the dt <= 0 throw is in the callers'
\* guards).  integrateFrom is its second half: velocity and angularVelocity are
\* the updated, not yet damped values.
integrateFrom(b, dt, velocity, angularVelocity) ==
    clearAccumulators(
        [b EXCEPT !.position = add(b.position, multiply(velocity, dt)),
                  !.velocity = multiply(velocity, b.linearDamping),
                  !.rotation = Add(b.rotation, Mul(angularVelocity, dt)),
                  !.angularVelocity = Mul(angularVelocity, b.angularDamping)])

integrate(b, dt) ==
    LET acceleration == multiply(b.forceAccumulator, Div(One, b.mass))
        angularAcceleration == Div(b.torqueAccumulator, b.momentOfInertia)
    IN  integrateFrom(b, dt,
                      add(b.velocity, multiply(acceleration, dt)),
                      Add(b.angularVelocity, Mul(angularAcceleration, dt)))

\* a guard that lets a zero time step through
DtRejectedNegativeOnly(dt) == Lt(dt, Zero)

\* the guard `if (dt <= 0) throw' shared by integrate, updateForces and step
DtRejected(dt) == Le(dt, Zero)

----------------------------------------------------------------------------
(* Forces *)

BodyIds == {1, 2}

\* The force objects of the model (compared by identity = by id):
\* a GravityForce, a DampingForce and a SpringForce between bodies 1 and 2.
ForceIds == {"gravity", "damping", "spring"}

ForceObject(f) ==
    CASE f = "gravity" -> [type |-> "GRAVITY", mass |-> One, gravityConstant |-> V(0, -2)]
      [] f = "damping" -> [type |-> "DAMPING", dampingCoefficient |-> One]
      [] f = "spring"  -> [type |-> "SPRING", restLength |-> One, springConstant |-> R(2),
                           firstBody |-> 1, firstLocalPoint |-> ZeroVec,
                           secondBody |-> 2, secondLocalPoint |-> ZeroVec]

\* SpringForce.getWorldAttachmentPoint
getWorldAttachmentPoint(bs, attBody, localPoint) ==
    add(rotate(localPoint, bs[attBody].rotation), bs[attBody].position)

\* GravityForce.apply(body)
GravityApply(fo, b) == addForce(b, multiply(fo.gravityConstant, fo.mass))

\* DampingForce.apply(body)
DampingApply(fo, b) ==
    addForce(b, multiply(b.velocity, Mul(fo.dampingCoefficient, R(-1))))

\* a spring force of the restoring magnitude pointing the other way
springForceOfReversed(fo, displacement) ==
    multiply(normalize(displacement),
             Mul(fo.springConstant, Sub(fo.restLength, magnitude(displacement))))

\* SpringForce.apply(body), split at the values it computes once;
\* secondBody = 0 stands for a missing second attachment.
\* springForceOf is the force on the first body: k * (|d| - restLength) along d
springForceOf(fo, displacement) ==
    multiply(normalize(displacement),
             Mul(fo.springConstant, Sub(magnitude(displacement), fo.restLength)))

\* body.addForce(force); body.addTorque(r.cross(force)) with r from the body to the point
applyAt(b, worldPoint, force) ==
    addTorque(addForce(b, force), cross(subtract(worldPoint, b.position), force))

springOnBody(fo, id, b, firstWorldPoint, secondWorldPoint, springForce) ==
    IF fo.secondBody # 0 /\ id = fo.secondBody
    THEN applyAt(IF id = fo.firstBody THEN applyAt(b, firstWorldPoint, springForce) ELSE b,
                 secondWorldPoint, multiply(springForce, R(-1)))
    ELSE IF id = fo.firstBody THEN applyAt(b, firstWorldPoint, springForce)
    ELSE b

springBetween(fo, id, bs, firstWorldPoint, secondWorldPoint) ==
    springOnBody(fo, id, bs[id], firstWorldPoint, secondWorldPoint,
                 springForceOf(fo, subtract(secondWorldPoint, firstWorldPoint)))

springFrom(fo, id, bs, firstWorldPoint) ==
    springBetween(fo, id, bs, firstWorldPoint,
                  IF fo.secondBody # 0
                  THEN getWorldAttachmentPoint(bs, fo.secondBody, fo.secondLocalPoint)
                  ELSE add(firstWorldPoint, Vector(fo.restLength, Zero)))

SpringApply(fo, id, bs) ==
    springFrom(fo, id, bs, getWorldAttachmentPoint(bs, fo.firstBody, fo.firstLocalPoint))

\* force.apply(body): the new fields of body `id'
apply(f, id, bs) ==
    LET fo == ForceObject(f)
    IN  CASE fo.type = "GRAVITY" -> GravityApply(fo, bs[id])
          [] fo.type = "DAMPING" -> DampingApply(fo, bs[id])
          [] fo.type = "SPRING"  -> SpringApply(fo, id, bs)

----------------------------------------------------------------------------
(* ForceRegistry: forceBodyPairs maps a body to its list of forces *)

\* forces.forEach(force => force.apply(body)) for one body
RECURSIVE applyAll(_, _, _)
applyAll(fs, id, bs) ==
    IF fs = <<>> THEN bs
    ELSE applyAll(Tail(fs), id, [bs EXCEPT ![id] = apply(Head(fs), id, bs)])

\* first forEach of updateForces: every registered body gets its forces applied
RECURSIVE applyRegistered(_, _, _)
applyRegistered(ids, reg, bs) ==
    IF ids = {} THEN bs
    ELSE LET id == CHOOSE i \in ids : \A k \in ids : i <= k
         IN  applyRegistered(ids \ {id}, reg, applyAll(reg[id], id, bs))

\* second forEach of updateForces: every registered body is integrated
integrateRegistered(reg, bs, dt) ==
    [id \in DOMAIN bs |-> IF id \in DOMAIN reg THEN integrate(bs[id], dt) ELSE bs[id]]

\* updateForces that applies the forces and leaves the integration out
updateForcesApplyOnly(reg, bs, dt) == applyRegistered(DOMAIN reg, reg, bs)

\* updateForces that integrates each body right after its own forces were
\* applied, before the forces of the next body are computed
RECURSIVE interleaveFrom(_, _, _, _)
interleaveFrom(ids, reg, bs, dt) ==
    IF ids = {} THEN bs
    ELSE LET id == CHOOSE i \in ids : \A k \in ids : i <= k
             applied == applyAll(reg[id], id, bs)
         IN  interleaveFrom(ids \ {id}, reg, [applied EXCEPT ![id] = integrate(@, dt)], dt)
updateForcesInterleaved(reg, bs, dt) == interleaveFrom(DOMAIN reg, reg, bs, dt)

\* the two forEach loops of updateForces over a Map whose keys were inserted
\* in the order `order'
RECURSIVE applyInOrder(_, _, _)
applyInOrder(order, reg, bs) ==
    IF order = <<>> THEN bs
    ELSE applyInOrder(Tail(order), reg, applyAll(reg[Head(order)], Head(order), bs))
RECURSIVE integrateInOrder(_, _, _)
integrateInOrder(order, bs, dt) ==
    IF order = <<>> THEN bs
    ELSE integrateInOrder(Tail(order), [bs EXCEPT ![Head(order)] = integrate(@, dt)], dt)
updateForcesInOrder(order, reg, bs, dt) ==
    integrateInOrder(order, applyInOrder(order, reg, bs), dt)

\* ForceRegistry.updateForces(dt) for dt > 0
updateForces(reg, bs, dt) ==
    integrateRegistered(reg, applyRegistered(DOMAIN reg, reg, bs), dt)

\* ForceRegistry.add(body, force)
registryAdd(reg, id, f) ==
    IF id \in DOMAIN reg
    THEN [reg EXCEPT ![id] = Append(@, f)]
    ELSE [k \in DOMAIN reg \cup {id} |-> IF k = id THEN <<f>> ELSE reg[k]]

\* forces.filter(f => f !== force)
RECURSIVE filterOut(_, _)
filterOut(fs, f) ==
    IF fs = <<>> THEN <<>>
    ELSE IF Head(fs) = f THEN filterOut(Tail(fs), f)
    ELSE <<Head(fs)>> \o filterOut(Tail(fs), f)

\* remove that drops only the first occurrence of the force
RECURSIVE filterOutFirst(_, _)
filterOutFirst(fs, f) ==
    IF fs = <<>> THEN <<>>
    ELSE IF Head(fs) = f THEN Tail(fs)
    ELSE <<Head(fs)>> \o filterOutFirst(Tail(fs), f)
registryRemoveFirst(reg, id, f) ==
    IF id \notin DOMAIN reg THEN reg
    ELSE [reg EXCEPT ![id] = filterOutFirst(@, f)]

\* ForceRegistry.remove(body, force)
registryRemove(reg, id, f) ==
    IF id \notin DOMAIN reg THEN reg
    ELSE [reg EXCEPT ![id] = filterOut(@, f)]

----------------------------------------------------------------------------
(* SATCollisionDetector on the shapes of rigid bodies *)

NullContact == [isNull |-> TRUE, bodyA |-> 0, bodyB |-> 0, normal |-> NaNVec,
                depth |-> NaN, contactPoint |-> NaNVec]

\* new CollisionInfo(bodyA, bodyB, normal, depth, contactPoint)
CollisionInfo(bodyA, bodyB, normal, depth, contactPoint) ==
    [isNull |-> FALSE, bodyA |-> bodyA, bodyB |-> bodyB, normal |-> normal,
     depth |-> depth, contactPoint |-> contactPoint]

\* RectangleShape.getCorners
getCorners(s) ==
    << s.position,
       Vector(Add(s.position.x, s.width), s.position.y),
       Vector(Add(s.position.x, s.width), Add(s.position.y, s.height)),
       Vector(s.position.x, Add(s.position.y, s.height)) >>

\* RectangleShape.getCollisionAxes: the normalized perpendicular of every edge
getCollisionAxes(s) ==
    LET corners == getCorners(s)
    IN  [i \in 1..4 |->
            LET edge == subtract(corners[(i % 4) + 1], corners[i])
            IN  normalize(Vector(Neg(edge.y), edge.x))]

\* SATCollisionDetector.getShapesAxes
getShapesAxes(shapeA, shapeB) ==
    (IF shapeA.type = "RECTANGLE" THEN getCollisionAxes(shapeA) ELSE <<>>)
    \o (IF shapeB.type = "RECTANGLE" THEN getCollisionAxes(shapeB) ELSE <<>>)

\* RectangleShape.project
RECURSIVE projectFrom(_, _, _, _)
projectFrom(corners, axis, min, max) ==
    IF corners = <<>> THEN [min |-> min, max |-> max]
    ELSE LET projection == dot(Head(corners), axis)
         IN  projectFrom(Tail(corners), axis,
                         MathMin(min, projection), MathMax(max, projection))
project(s, axis) == projectFrom(getCorners(s), axis, PInf, NInf)

\* SATCollisionDetector.checkOverlap; null is [isNull |-> TRUE]
checkOverlap(projectionA, projectionB) ==
    IF Lt(projectionA.max, projectionB.min) \/ Lt(projectionB.max, projectionA.min)
    THEN [isNull |-> TRUE, overlap |-> NaN]
    ELSE [isNull |-> FALSE,
          overlap |-> MathMin(Sub(projectionA.max, projectionB.min),
                              Sub(projectionB.max, projectionA.min))]

\* SATCollisionDetector.findContactPoint
findContactPoint(shapeA, shapeB, axis) == ZeroVec

\* the axis loop of SATCollisionDetector.detectCollision; a null
\* minOverlapAxis is modelled by the NaN vector
RECURSIVE satLoop(_, _, _, _, _)
satLoop(axes, shapeA, shapeB, minOverlap, minOverlapAxis) ==
    IF axes = <<>>
    THEN [isNull |-> FALSE, minOverlap |-> minOverlap, minOverlapAxis |-> minOverlapAxis]
    ELSE LET axis == Head(axes)
             o == checkOverlap(project(shapeA, axis), project(shapeB, axis))
         IN  IF o.isNull
             THEN [isNull |-> TRUE, minOverlap |-> NaN, minOverlapAxis |-> NaNVec]
             ELSE IF Lt(o.overlap, minOverlap)
                  THEN satLoop(Tail(axes), shapeA, shapeB, o.overlap, axis)
                  ELSE satLoop(Tail(axes), shapeA, shapeB, minOverlap, minOverlapAxis)

\* SATCollisionDetector.detectCollision(shapeA, shapeB)
satDetectCollision(shapeA, shapeB) ==
    LET r == satLoop(getShapesAxes(shapeA, shapeB), shapeA, shapeB, PInf, NaNVec)
    IN  IF r.isNull THEN NullContact
        ELSE IF shapeA.parent = 0 \/ shapeB.parent = 0 THEN NullContact
        ELSE CollisionInfo(shapeA.parent, shapeB.parent, r.minOverlapAxis,
                           r.minOverlap, findContactPoint(shapeA, shapeB, r.minOverlapAxis))

----------------------------------------------------------------------------
(* CollisionDectector *)

isValidAABB(aabb) ==
    /\ Le(aabb.minX, aabb.maxX)
    /\ Le(aabb.minY, aabb.maxY)
    /\ IsFinite(aabb.minX) /\ IsFinite(aabb.minY)
    /\ IsFinite(aabb.maxX) /\ IsFinite(aabb.maxY)

\* the body of the double loop of broadPhase for positions i < j of the list
broadPhasePair(list, bs, i, j) ==
    LET bodyA == bs[list[i]]
        bodyB == bs[list[j]]
        aabbA == getAABB(bodyA.shape)
        aabbB == getAABB(bodyB.shape)
        xOverlap == Ge(aabbA.maxX, aabbB.minX) /\ Ge(aabbB.maxX, aabbA.minX)
        yOverlap == Ge(aabbA.maxY, aabbB.minY) /\ Ge(aabbB.maxY, aabbA.minY)
    IN  /\ bodyA.shape.type # "NONE"
        /\ bodyB.shape.type # "NONE"
        /\ isValidAABB(aabbA) /\ isValidAABB(aabbB)
        /\ xOverlap /\ yOverlap

RECURSIVE broadPhaseFrom(_, _, _, _)
broadPhaseFrom(list, bs, i, j) ==
    IF i > Len(list) THEN <<>>
    ELSE IF j > Len(list) THEN broadPhaseFrom(list, bs, i + 1, i + 2)
    ELSE (IF broadPhasePair(list, bs, i, j) THEN << <<list[i], list[j]>> >> ELSE <<>>)
         \o broadPhaseFrom(list, bs, i, j + 1)

\* CollisionDectector.broadPhase(bodies)
broadPhase(list, bs) == broadPhaseFrom(list, bs, 1, 2)

\* CollisionDectector.narrowPhase(pairs)
RECURSIVE narrowPhase(_, _)
narrowPhase(pairs, bs) ==
    IF pairs = <<>> THEN <<>>
    ELSE LET bodyA == Head(pairs)[1]
             bodyB == Head(pairs)[2]
             collision == satDetectCollision(bs[bodyA].shape, bs[bodyB].shape)
         IN  (IF bs[bodyA].shape.type = "NONE" \/ bs[bodyB].shape.type = "NONE"
                 \/ collision.isNull
              THEN <<>>
              ELSE << [collision EXCEPT !.bodyA = bodyA, !.bodyB = bodyB] >>)
             \o narrowPhase(Tail(pairs), bs)

\* CollisionDectector.detectCollisions(bodies)
detectCollisions(list, bs) == narrowPhase(broadPhase(list, bs), bs)

\* CircleShape.getCollisionAxes(shape) has no return statement: for a circle
\* getShapesAxes spreads undefined into axes.push, which throws a TypeError
getShapesAxesThrows(shapeA, shapeB) == shapeA.type = "CIRCLE" \/ shapeB.type = "CIRCLE"

\* SATCollisionDetector.detectCollision throws: nothing in it catches
satDetectCollisionThrows(shapeA, shapeB) == getShapesAxesThrows(shapeA, shapeB)

\* CollisionDectector.narrowPhase throws: the loop has no try / catch, so the
\* first pair whose detection throws ends the call
narrowPhaseThrows(pairs, bs) ==
    \E k \in DOMAIN pairs :
        /\ bs[pairs[k][1]].shape.type # "NONE"
        /\ bs[pairs[k][2]].shape.type # "NONE"
        /\ satDetectCollisionThrows(bs[pairs[k][1]].shape, bs[pairs[k][2]].shape)

\* CollisionDectector.detectCollisions throws
detectCollisionsThrows(list, bs) == narrowPhaseThrows(broadPhase(list, bs), bs)

\* CollisionDectector.detectCollision(bodies): the legacy method step() calls
detectCollision(list, bs) == <<>>

----------------------------------------------------------------------------
(* PhysicsWorld *)

MathSign(a) == IF a = NaN THEN NaN ELSE R(SgnI(a[1]))

\* PhysicsWorld.getRelativeVelocity
getRelativeVelocity(bodyA, bodyB, contactPoint) ==
    LET velA == add(bodyA.velocity,
                    Vector(Mul(Neg(bodyA.angularVelocity), Sub(contactPoint.y, bodyA.position.y)),
                           Mul(bodyA.angularVelocity, Sub(contactPoint.x, bodyA.position.x))))
        velB == add(bodyB.velocity,
                    Vector(Mul(Neg(bodyB.angularVelocity), Sub(contactPoint.y, bodyB.position.y)),
                           Mul(bodyB.angularVelocity, Sub(contactPoint.x, bodyB.position.x))))
    IN  subtract(velB, velA)

\* a CollisionPair {bodyA, bodyB, info}
CollisionPair(bodyA, bodyB, info) == [bodyA |-> bodyA, bodyB |-> bodyB, info |-> info]

\* One iteration of the loop of PhysicsWorld.resolveCollisions is resolvePair;
\* the operators before it are its steps, each taking the values computed so far.
Sq(x) == Mul(x, x)

\* an impulse step that changes the velocities of body A only
applyImpulseOneSided(bs, A, B, rA, rB, impulse) ==
    [bs EXCEPT
       ![A].velocity = subtract(@, multiply(impulse, bs[A].inverseMass)),
       ![A].angularVelocity = Sub(@, Mul(bs[A].inverseInertia, cross(rA, impulse)))]

\* Step 3: apply impulse
applyImpulse(bs, A, B, rA, rB, impulse) ==
    [bs EXCEPT
       ![A].velocity = subtract(@, multiply(impulse, bs[A].inverseMass)),
       ![B].velocity = add(@, multiply(impulse, bs[B].inverseMass)),
       ![A].angularVelocity = Sub(@, Mul(bs[A].inverseInertia, cross(rA, impulse))),
       ![B].angularVelocity = Add(@, Mul(bs[B].inverseInertia, cross(rB, impulse)))]

\* Step 4: position correction, percent 0.8 and slop 0.01
moveApart(bs, A, B, correction) ==
    [bs EXCEPT
       ![A].position = subtract(@, multiply(correction, bs[A].inverseMass)),
       ![B].position = add(@, multiply(correction, bs[B].inverseMass))]

correctPositions(bs, A, B, info, invMassSum) ==
    IF Gt(info.depth, Q(1, 100))
    THEN moveApart(bs, A, B,
                   multiply(info.normal,
                            Mul(Div(MathMax(Sub(info.depth, Q(1, 100)), Zero), invMassSum),
                                Q(8, 10))))
    ELSE bs

\* a friction step without the Coulomb clamp: the whole of jt is applied
frictionImpulseUnclamped(tangent, jt, j) ==
    multiply(tangent, jt)

\* Step 5: friction with frictionCoeff 0.2
frictionImpulseOf(tangent, jt, j) ==
    multiply(tangent, Mul(MathMin(MathAbs(jt), Mul(j, Q(2, 10))), MathSign(jt)))

applyFrictionImpulse(bs, A, B, frictionImpulse) ==
    [bs EXCEPT
       ![A].velocity = subtract(@, multiply(frictionImpulse, bs[A].inverseMass)),
       ![B].velocity = add(@, multiply(frictionImpulse, bs[B].inverseMass))]

applyFriction(bs, A, B, rv, impulseDenominator, j, tangent) ==
    IF Gt(lengthSquared(tangent), Q(1, 1000))
    THEN applyFrictionImpulse(bs, A, B,
             frictionImpulseOf(tangent, Div(Neg(dot(rv, tangent)), impulseDenominator), j))
    ELSE bs

resolveWithImpulse(bs, A, B, info, rv, rA, rB, invMassSum, impulseDenominator, j) ==
    applyFriction(
        correctPositions(applyImpulse(bs, A, B, rA, rB, multiply(info.normal, j)),
                         A, B, info, invMassSum),
        A, B, rv, impulseDenominator, j,
        normalize(subtract(rv, multiply(info.normal, dot(rv, info.normal)))))

\* an impulse magnitude that ignores restitution: j = -(rv . n) / denominator
resolveWithDenominatorInelastic(bs, A, B, info, rv, rA, rB, invMassSum, impulseDenominator) ==
    resolveWithImpulse(bs, A, B, info, rv, rA, rB, invMassSum, impulseDenominator,
        Div(Neg(dot(rv, info.normal)), impulseDenominator))

\* Step 2: impulse magnitude j
resolveWithDenominator(bs, A, B, info, rv, rA, rB, invMassSum, impulseDenominator) ==
    resolveWithImpulse(bs, A, B, info, rv, rA, rB, invMassSum, impulseDenominator,
        Div(Mul(Neg(Add(One, MathMin(bs[A].restitution, bs[B].restitution))),
                dot(rv, info.normal)),
            impulseDenominator))

resolveWithMasses(bs, A, B, info, rv, rA, rB, invMassSum) ==
    resolveWithDenominator(bs, A, B, info, rv, rA, rB, invMassSum,
        Add(invMassSum,
            Add(Mul(bs[A].inverseInertia, Sq(cross(rA, info.normal))),
                Mul(bs[B].inverseInertia, Sq(cross(rB, info.normal))))))

\* a resolution step that treats separating contacts like approaching ones
resolveContactAlways(bs, A, B, info, rv) ==
    resolveWithMasses(bs, A, B, info, rv,
                      subtract(info.contactPoint, bs[A].position),
                      subtract(info.contactPoint, bs[B].position),
                      Add(bs[A].inverseMass, bs[B].inverseMass))

\* Step 1: separating bodies are skipped
resolveContact(bs, A, B, info, rv) ==
    IF Gt(dot(rv, info.normal), Zero) THEN bs
    ELSE resolveWithMasses(bs, A, B, info, rv,
                           subtract(info.contactPoint, bs[A].position),
                           subtract(info.contactPoint, bs[B].position),
                           Add(bs[A].inverseMass, bs[B].inverseMass))

resolvePair(bs, pair) ==
    resolveContact(bs, pair.bodyA, pair.bodyB, pair.info,
                   getRelativeVelocity(bs[pair.bodyA], bs[pair.bodyB],
                                       pair.info.contactPoint))

\* PhysicsWorld.resolveCollisions(collisions)
RECURSIVE resolveCollisions(_, _)
resolveCollisions(bs, collisions) ==
    IF collisions = <<>> THEN bs
    ELSE resolveCollisions(resolvePair(bs, Head(collisions)), Tail(collisions))

\* for (const body of this.bodies) body.integrate(dt)
RECURSIVE integrateAll(_, _, _)
integrateAll(list, bs, dt) ==
    IF list = <<>> THEN bs
    ELSE integrateAll(Tail(list), [bs EXCEPT ![Head(list)] = integrate(@, dt)], dt)

\* the phases of PhysicsWorld.step(dt) for dt > 0
stepForces(reg, bs, dt) == updateForces(reg, bs, dt)
stepDetect(list, bs) == detectCollision(list, bs)
stepResolve(bs, collisionPairs) == resolveCollisions(bs, collisionPairs)
stepIntegrate(list, bs, dt) == integrateAll(list, bs, dt)

\* this.bodies.indexOf(body) / splice(index, 1)
RECURSIVE removeFirst(_, _)
removeFirst(list, id) ==
    IF list = <<>> THEN <<>>
    ELSE IF Head(list) = id THEN Tail(list)
    ELSE <<Head(list)>> \o removeFirst(Tail(list), id)

----------------------------------------------------------------------------
(* The simulation: bodies, a world and a registry driven by their callers *)

MaxOps    == 2    \* completed calls per behaviour
MaxBodies == 3    \* length of PhysicsWorld.bodies
MaxForces == 2    \* length of one body's force list

\* a dynamic body: mass m, inertia i, damping d, restitution e
DynamicBody(id, m, i, d, e, position, velocity) ==
    [RigidBody(m, position, i) EXCEPT
        !.velocity = velocity, !.linearDamping = d, !.angularDamping = d,
        !.inverseMass = Div(One, m), !.inverseInertia = Div(One, i),
        !.restitution = e,
        !.shape = RectangleShape(R(2), R(2), position, id)]

\* a static body: mass 0, inverseMass = inverseInertia = 0
StaticBody(id, position) ==
    [RigidBody(Zero, position, Zero) EXCEPT
        !.linearDamping = One, !.angularDamping = One,
        !.inverseMass = Zero, !.inverseInertia = Zero, !.restitution = One,
        !.shape = RectangleShape(R(2), R(2), position, id)]

InitialBodies ==
    { [id \in BodyIds |-> IF id = 1 THEN b1 ELSE b2] :
        b1 \in { DynamicBody(1, R(2), R(4), Q(1, 2), Q(1, 2), V(0, 0), V(1, 0)) },
        b2 \in { DynamicBody(2, One, One, One, One, V(1, 0), V(-1, 0)),
                 StaticBody(2, V(1, 0)) } }

DtValues     == { R(-1), Zero, Q(1, 2) }
ForceValues  == { Vector(R(2), R(-4)) }
TorqueValues == { R(3) }

\* the worlds the behaviours start from: empty, or with both bodies tracked
InitialWorlds == { <<>>, <<1, 2>> }

\* the registries the behaviours start from: empty, or both bodies registered
InitialRegistries ==
    { <<>>, [id \in BodyIds |-> IF id = 1 THEN <<"gravity", "spring">> ELSE <<"spring">>] }

NoGeometry == [type |-> "NONE", cls |-> "none", radius |-> Zero, width |-> Zero,
             height |-> Zero, minX |-> Zero, minY |-> Zero, maxX |-> Zero, maxY |-> Zero,
             vertices |-> <<>>]

\* new Transform(position, rotation, scale)
Transform(position, rotation, scale) ==
    [position |-> position, rotation |-> rotation, scale |-> scale]

\* no entity constructed yet, no detection run yet
NoEntity == [constructed |-> FALSE, id |-> 0, isStatic |-> FALSE, isKinematic |-> FALSE,
             shape |-> NoGeometry, transform |-> Transform(ZeroVec, Zero, Vector(One, One)),
             density |-> Zero, body |-> RigidBody(Zero, ZeroVec, Zero)]
NoDetect == [called |-> FALSE, alg |-> "none", a |-> NoEntity, b |-> NoEntity,
             result |-> NullContact]

\* new Material(density, friction, restitution, staticFriction, frictionAir)
Material(density, friction, restitution, staticFriction, frictionAir) ==
    [constructed |-> TRUE, density |-> density, friction |-> friction,
     restitution |-> restitution, staticFriction |-> staticFriction,
     frictionAir |-> frictionAir]

\* no material constructed yet
NoMaterial == [Material(Zero, Zero, Zero, Zero, Zero) EXCEPT !.constructed = FALSE]

----------------------------------------------------------------------------
(* EventEmitter, Timer and Runner.  sim holds their fields, the clock
   (performance.now(), in ms), the animation frames requested and not yet run
   or cancelled, and a log of the listener calls, emitted events and world
   steps of the operation in progress. *)

EventTypes == {"simulation:started", "simulation:stopped", "physics:step", "render:frame"}

\* Timer.MAX_DELTA_TIME = 1000 / 60
MAX_DELTA_TIME == Div(R(1000), R(60))

\* new Runner(physicsWorld, eventEmitter) with a new EventEmitter at time 0
NewSim ==
    [constructed |-> TRUE, isRunning |-> FALSE, animationFrameId |-> 0,
     frameCount |-> 0, lastFPSUpdate |-> Zero, currentFPS |-> Zero,
     lastTime |-> Zero, startTime |-> Zero, totalTime |-> Zero,
     listeners |-> [t \in EventTypes |-> <<>>],
     now |-> Zero, pending |-> {}, nextFrameId |-> 1,
     calls |-> <<>>, emitted |-> <<>>, steps |-> 0, threw |-> FALSE]

\* no runner constructed
NoSim == [NewSim EXCEPT !.constructed = FALSE]

\* EventEmitter.on(eventType, listener)
on(st, eventType, listener) == [st EXCEPT !.listeners[eventType] = Append(@, listener)]

\* EventEmitter.off(eventType, listener): indexOf and splice
off(st, eventType, listener) ==
    [st EXCEPT !.listeners[eventType] = removeFirst(@, listener)]

\* Timer.reset
timerReset(st) == [st EXCEPT !.startTime = st.now, !.lastTime = st.now, !.totalTime = Zero]

\* Timer.getDeltaTime: the value returned, and the timer after the call
clampedDelta(st) == MathMin(Sub(st.now, st.lastTime), MAX_DELTA_TIME)
getDeltaTime(st) == Div(clampedDelta(st), R(1000))
afterGetDeltaTime(st) ==
    [st EXCEPT !.lastTime = st.now, !.totalTime = Add(@, clampedDelta(st))]

\* requestAnimationFrame(this.tick.bind(this)) assigned to animationFrameId
requestAnimationFrame(st) ==
    [st EXCEPT !.animationFrameId = st.nextFrameId,
               !.pending = @ \cup {st.nextFrameId},
               !.nextFrameId = @ + 1]

\* if (this.animationFrameId) cancelAnimationFrame(this.animationFrameId)
cancelAnimationFrame(st) ==
    IF st.animationFrameId # 0 THEN [st EXCEPT !.pending = @ \ {st.animationFrameId}] ELSE st

\* the end of Runner.stop: the counters are reset
resetCounters(st) ==
    [st EXCEPT !.frameCount = 0, !.lastFPSUpdate = Zero, !.currentFPS = Zero]

\* The listeners of the model, by what their function does when called:
\* "log" nothing, "once" removes itself, "remover" removes the listener "log",
\* "adder" registers the listener "log", "stopper" calls runner.stop().
Listeners == {"log", "once", "remover", "adder", "stopper"}

RECURSIVE emitFrom(_, _, _)
RECURSIVE stop(_)

\* listener(event), after the call was logged
invokeLogged(st, listener, eventType) ==
    CASE listener = "once"    -> off(st, eventType, "once")
      [] listener = "remover" -> off(st, eventType, "log")
      [] listener = "adder"   -> on(st, eventType, "log")
      [] listener = "stopper" -> stop(st)
      [] OTHER                -> st

invoke(st, listener, eventType) ==
    invokeLogged([st EXCEPT !.calls = Append(@, <<listener, eventType>>)], listener, eventType)

\* for (const listener of listenersForThisEvent) listener(event): the array
\* iterator reads the live array, index by index
emitFrom(st, eventType, i) ==
    IF i > Len(st.listeners[eventType]) THEN st
    ELSE emitFrom(invoke(st, st.listeners[eventType][i], eventType), eventType, i + 1)

\* EventEmitter.emit(event)
emit(st, eventType) ==
    emitFrom([st EXCEPT !.emitted = Append(@, eventType)], eventType, 1)

\* Runner.start
start(st) ==
    IF st.isRunning THEN st
    ELSE requestAnimationFrame(
             emit(timerReset([st EXCEPT !.isRunning = TRUE]), "simulation:started"))

\* Runner.stop
stop(st) ==
    IF ~st.isRunning THEN st
    ELSE resetCounters(
             emit([cancelAnimationFrame(st) EXCEPT !.isRunning = FALSE], "simulation:stopped"))

\* Runner.updatePerformanceCounters(timestamp)
countedFrame(st, timestamp) ==
    IF Ge(Sub(timestamp, st.lastFPSUpdate), R(1000))
    THEN [st EXCEPT !.currentFPS = Div(R(st.frameCount),
                                       Div(Sub(timestamp, st.lastFPSUpdate), R(1000))),
                    !.frameCount = 0, !.lastFPSUpdate = timestamp]
    ELSE st
updatePerformanceCounters(st, timestamp) ==
    countedFrame([st EXCEPT !.frameCount = @ + 1], timestamp)

\* Runner.tick(timestamp) from physicsWorld.step(deltaTime) on: step throws
\* for deltaTime <= 0 and nothing catches it; the world of the runner is empty
tickWith(st, timestamp, deltaTime) ==
    IF DtRejected(deltaTime) THEN [st EXCEPT !.threw = TRUE]
    ELSE requestAnimationFrame(
             emit(updatePerformanceCounters([st EXCEPT !.steps = @ + 1], timestamp),
                  "physics:step"))

tick(st, timestamp) == tickWith(afterGetDeltaTime(st), timestamp, getDeltaTime(st))

\* the state an operation starts from: the logs of the previous one are dropped
Fresh(st) == [st EXCEPT !.calls = <<>>, !.emitted = <<>>, !.steps = 0, !.threw = FALSE]

Prog == [body |-> body, bodies |-> bodies, forceBodyPairs |-> forceBodyPairs]

Call(op, id, f, dt, threw, afterForces, contacts, afterResolve) ==
    [op |-> op, id |-> id, f |-> f, dt |-> dt, threw |-> threw, pre |-> Prog,
     afterForces |-> afterForces, contacts |-> contacts, afterResolve |-> afterResolve]

Init ==
    /\ body \in InitialBodies
    /\ bodies \in InitialWorlds
    /\ forceBodyPairs \in InitialRegistries
    /\ ops = 0
    /\ last = [op |-> "new", id |-> 0, f |-> "", dt |-> Zero, threw |-> FALSE,
               pre |-> Prog,
               afterForces |-> body, contacts |-> <<>>, afterResolve |-> body]
    /\ entity = NoEntity
    /\ det = NoDetect
    /\ material = NoMaterial
    /\ sim = NoSim

\* A call that throws leaves the program state as it is.  What a caller does
\* after catching the error is what it can do from the unchanged state, which
\* Next explores already, so a state reached by a throw is not continued.
Throws(op, id, dt) ==
    /\ ~last.threw
    /\ last' = Call(op, id, "", dt, TRUE, body, <<>>, body)
    /\ UNCHANGED <<body, bodies, forceBodyPairs, ops, entity, det, material, sim>>

CanCall == ~last.threw /\ ops < MaxOps

Returns(op, id, f, dt) ==
    /\ ops' = ops + 1
    /\ last' = Call(op, id, f, dt, FALSE, body, <<>>, body)
    /\ UNCHANGED <<entity, det, material, sim>>

\* PhysicsWorld.addBody(body)
AddBody(id) ==
    /\ CanCall
    /\ Len(bodies) < MaxBodies
    /\ bodies' = Append(bodies, id)
    /\ Returns("addBody", id, "", Zero)
    /\ UNCHANGED <<body, forceBodyPairs>>

\* PhysicsWorld.removeBody(body)
RemoveBody(id) ==
    /\ CanCall
    /\ bodies' = removeFirst(bodies, id)
    /\ Returns("removeBody", id, "", Zero)
    /\ UNCHANGED <<body, forceBodyPairs>>

\* ForceRegistry.add(body, force) on the world's registry
RegistryAdd(id, f) ==
    /\ CanCall
    /\ id \in DOMAIN forceBodyPairs => Len(forceBodyPairs[id]) < MaxForces
    /\ forceBodyPairs' = registryAdd(forceBodyPairs, id, f)
    /\ Returns("add", id, f, Zero)
    /\ UNCHANGED <<body, bodies>>

\* ForceRegistry.remove(body, force)
RegistryRemove(id, f) ==
    /\ CanCall
    /\ forceBodyPairs' = registryRemove(forceBodyPairs, id, f)
    /\ Returns("remove", id, f, Zero)
    /\ UNCHANGED <<body, bodies>>

\* RigidBody.addForce(force)
AddForce(id, force) ==
    /\ CanCall
    /\ body' = [body EXCEPT ![id] = addForce(@, force)]
    /\ Returns("addForce", id, "", Zero)
    /\ UNCHANGED <<bodies, forceBodyPairs>>

\* RigidBody.addTorque(torque)
AddTorque(id, torque) ==
    /\ CanCall
    /\ body' = [body EXCEPT ![id] = addTorque(@, torque)]
    /\ Returns("addTorque", id, "", Zero)
    /\ UNCHANGED <<bodies, forceBodyPairs>>

\* RigidBody.integrate(dt)
Integrate(id, dt) ==
    IF DtRejected(dt) THEN Throws("integrate", id, dt)
    ELSE /\ CanCall
         /\ body' = [body EXCEPT ![id] = integrate(@, dt)]
         /\ Returns("integrate", id, "", dt)
         /\ UNCHANGED <<bodies, forceBodyPairs>>

\* ForceRegistry.updateForces(dt)
UpdateForces(dt) ==
    IF DtRejected(dt) THEN Throws("updateForces", 0, dt)
    ELSE /\ CanCall
         /\ body' = updateForces(forceBodyPairs, body, dt)
         /\ Returns("updateForces", 0, "", dt)
         /\ UNCHANGED <<bodies, forceBodyPairs>>

\* PhysicsWorld.step(dt); StepDetected, StepResolved and StepIntegrated are the
\* rest of step after its first, second and third phase
StepIntegrated(dt, afterForces, collisionPairs, afterResolve) ==
    /\ CanCall
    /\ body' = stepIntegrate(bodies, afterResolve, dt)
    /\ ops' = ops + 1
    /\ last' = Call("step", 0, "", dt, FALSE, afterForces, collisionPairs, afterResolve)
    /\ UNCHANGED <<bodies, forceBodyPairs, entity, det, material, sim>>

StepResolved(dt, afterForces, collisionPairs) ==
    StepIntegrated(dt, afterForces, collisionPairs,
                   stepResolve(afterForces, collisionPairs))

StepDetected(dt, afterForces) ==
    StepResolved(dt, afterForces, stepDetect(bodies, afterForces))

Step(dt) ==
    IF DtRejected(dt) THEN Throws("step", 0, dt)
    ELSE StepDetected(dt, stepForces(forceBodyPairs, body, dt))

Next ==
    \/ \E id \in BodyIds : AddBody(id)
    \/ \E id \in BodyIds : RemoveBody(id)
    \/ \E id \in BodyIds, f \in ForceIds : RegistryAdd(id, f)
    \/ \E id \in BodyIds, f \in ForceIds : RegistryRemove(id, f)
    \/ \E id \in BodyIds, force \in ForceValues : AddForce(id, force)
    \/ \E id \in BodyIds, torque \in TorqueValues : AddTorque(id, torque)
    \/ \E id \in BodyIds, dt \in DtValues : Integrate(id, dt)
    \/ \E dt \in DtValues : UpdateForces(dt)
    \/ \E dt \in DtValues : Step(dt)

Spec == Init /\ [][Next]_vars

TypeOK == ops \in 0..MaxOps

----------------------------------------------------------------------------
(* Properties of the simulation *)

Range(seq) == { seq[i] : i \in DOMAIN seq }

ContactPairsOf(cs) == [i \in DOMAIN cs |-> <<cs[i].bodyA, cs[i].bodyB>>]

IsStatic(b) == b.mass = Zero /\ b.inverseMass = Zero /\ b.inverseInertia = Zero

\* C1: in a step with dt > 0, every pair of tracked bodies with overlapping
\* bounding boxes goes through the narrow phase and every resulting contact is
\* handed to the resolver of that same step, after the forces and before the
\* integration.
C1_StepResolvesDetectedContacts ==
    (last.op = "step" /\ ~last.threw) =>
        ContactPairsOf(last.contacts)
            = ContactPairsOf(detectCollisions(last.pre.bodies, last.afterForces))

\* C2: a static body never changes velocity or position, whatever call is
\* made, and both stay finite numbers.
C2_StaticBodyNeverMoves ==
    \A id \in BodyIds :
        IsStatic(last.pre.body[id]) =>
            /\ body[id].velocity = last.pre.body[id].velocity
            /\ body[id].position = last.pre.body[id].position
            /\ VecFinite(body[id].velocity) /\ VecFinite(body[id].position)

\* C3: step, updateForces and integrate called with dt <= 0 throw, and the
\* bodies, the body collection and the registry are as before the call.
C3_NonPositiveDtRejected ==
    (last.op \in {"step", "updateForces", "integrate"} /\ Le(last.dt, Zero)) =>
        (last.threw /\ Prog = last.pre)

C3_Witness ==
    /\ last.op = "step" /\ last.threw /\ last.dt = Zero
    /\ bodies # <<>> /\ forceBodyPairs # <<>>
    /\ \E id \in BodyIds : body[id].forceAccumulator # ZeroVec

\* C4: integrate(dt) with dt > 0 on a body with mass > 0 and inertia > 0:
\* velocity' = (v + (F/m)*dt) * linearDamping, position' = p + (v + (F/m)*dt)*dt,
\* angularVelocity' = (w + (torque/I)*dt) * angularDamping,
\* rotation' = r + (w + (torque/I)*dt)*dt, and both accumulators are cleared.
C4_IntegrateFormula ==
    (last.op = "integrate" /\ ~last.threw /\ Gt(last.pre.body[last.id].mass, Zero)
        /\ Gt(last.pre.body[last.id].momentOfInertia, Zero)) =>
        LET b0 == last.pre.body[last.id]
            b  == body[last.id]
            dt == last.dt
            vx == Add(b0.velocity.x, Mul(Div(b0.forceAccumulator.x, b0.mass), dt))
            vy == Add(b0.velocity.y, Mul(Div(b0.forceAccumulator.y, b0.mass), dt))
            w  == Add(b0.angularVelocity, Mul(Div(b0.torqueAccumulator, b0.momentOfInertia), dt))
        IN  /\ b.velocity = Vector(Mul(vx, b0.linearDamping), Mul(vy, b0.linearDamping))
            /\ b.position = Vector(Add(b0.position.x, Mul(vx, dt)), Add(b0.position.y, Mul(vy, dt)))
            /\ b.angularVelocity = Mul(w, b0.angularDamping)
            /\ b.rotation = Add(b0.rotation, Mul(w, dt))
            /\ b.forceAccumulator = ZeroVec /\ b.torqueAccumulator = Zero
            /\ \A other \in BodyIds \ {last.id} : body[other] = last.pre.body[other]

C4_Witness ==
    /\ last.op = "integrate" /\ ~last.threw
    /\ Gt(last.pre.body[last.id].mass, One)
    /\ last.pre.body[last.id].linearDamping # One
    /\ last.pre.body[last.id].forceAccumulator = Vector(R(2), R(-4))
    /\ last.pre.body[last.id].velocity # ZeroVec
    /\ body[last.id].forceAccumulator = ZeroVec

\* C6: after updateForces(dt) with dt > 0 every body with a registry entry has
\* a zero force accumulator and a zero torque accumulator.
C6_AccumulatorsClearedAfterUpdate ==
    (last.op = "updateForces" /\ ~last.threw) =>
        \A id \in DOMAIN forceBodyPairs :
            body[id].forceAccumulator = ZeroVec /\ body[id].torqueAccumulator = Zero

C6_Witness ==
    /\ last.op = "updateForces" /\ ~last.threw
    /\ DOMAIN forceBodyPairs = BodyIds
    /\ "spring" \in Range(forceBodyPairs[1]) /\ "gravity" \in Range(forceBodyPairs[1])
    /\ last.pre.body[1].torqueAccumulator # Zero
    /\ body[1].velocity # last.pre.body[1].velocity
    /\ body[1].torqueAccumulator = Zero

\* the force vector a registered force contributes to body id in state bs
ForceOn(f, id, bs) ==
    subtract(apply(f, id, bs).forceAccumulator, bs[id].forceAccumulator)

RECURSIVE SumForces(_, _, _)
SumForces(fs, id, bs) ==
    IF fs = <<>> THEN ZeroVec
    ELSE add(ForceOn(Head(fs), id, bs), SumForces(Tail(fs), id, bs))

\* C7: remove(body, force) changes nothing when body has no entry; otherwise
\* body's list becomes the old list without force, order kept, and every other
\* body's list is unchanged; a later updateForces gives a registered body the
\* forces left in its list and no others.
C7_RemoveOnlyThatForce ==
    /\ last.op = "remove" =>
        LET old == last.pre.forceBodyPairs
            Keep(x) == x # last.f
        IN  /\ body = last.pre.body /\ bodies = last.pre.bodies
            /\ last.id \notin DOMAIN old => forceBodyPairs = old
            /\ last.id \in DOMAIN old =>
                /\ DOMAIN forceBodyPairs = DOMAIN old
                /\ forceBodyPairs[last.id] = SelectSeq(old[last.id], Keep)
                /\ \A other \in DOMAIN old \ {last.id} : forceBodyPairs[other] = old[other]
    /\ (last.op = "updateForces" /\ ~last.threw) =>
        \A id \in DOMAIN forceBodyPairs :
            LET b0 == last.pre.body[id]
                total == add(b0.forceAccumulator,
                             SumForces(forceBodyPairs[id], id, last.pre.body))
            IN  Gt(b0.mass, Zero) =>
                    body[id].velocity =
                        multiply(add(b0.velocity,
                                     multiply(Vector(Div(total.x, b0.mass), Div(total.y, b0.mass)),
                                              last.dt)),
                                 b0.linearDamping)

C7_Witness ==
    /\ last.op = "remove" /\ last.id = 1 /\ last.f = "gravity"
    /\ last.pre.forceBodyPairs # <<>>
    /\ last.pre.forceBodyPairs[1] = <<"gravity", "spring">>
    /\ forceBodyPairs[1] = <<"spring">>
    /\ forceBodyPairs[2] = <<"spring">>

----------------------------------------------------------------------------
(* Entity construction: EntityFactory and the PhysicsEntity constructor *)

\* Math.PI to the precision of 355/113
MathPI == Q(355, 113)

\* a shape object: its ShapeType, its class and the fields of that class
Geometry(type, cls, radius, width, height, minX, minY, maxX, maxY) ==
    [type |-> type, cls |-> cls, radius |-> radius, width |-> width, height |-> height,
     minX |-> minX, minY |-> minY, maxX |-> maxX, maxY |-> maxY, vertices |-> <<>>]

\* the geometry classes of the factory
CircleShapeGeometry(radius) ==
    Geometry("CIRCLE", "CircleShapeGeometry", radius, Zero, Zero, Zero, Zero, Zero, Zero)
AABBShapeGeometry(width, height) ==
    Geometry("AABB", "AABBShapeGeometry", Zero, width, height, Zero, Zero, Zero, Zero)
RectangleShapeGeometry(width, height) ==
    Geometry("RECTANGLE", "RectangleShapeGeometry", Zero, width, height, Zero, Zero, Zero, Zero)

\* new PolygonShapeGeometry(vertices)
PolygonShapeGeometry(vertices) ==
    [Geometry("POLYGON", "PolygonShapeGeometry", Zero, Zero, Zero, Zero, Zero, Zero, Zero)
        EXCEPT !.vertices = vertices]

\* new AABBShape(minX, minY, maxX, maxY): width and height keep their default 1
AABBShape(minX, minY, maxX, maxY) ==
    Geometry("AABB", "AABBShape", Zero, One, One, minX, minY, maxX, maxY)

\* PolygonShapeGeometry.getArea: the shoelace sum from vertex i on
RECURSIVE shoelace(_, _, _)
shoelace(vertices, i, area) ==
    IF i > Len(vertices) THEN Div(MathAbs(area), R(2))
    ELSE shoelace(vertices, i + 1,
                  Sub(Add(area, Mul(vertices[i].x, vertices[(i % Len(vertices)) + 1].y)),
                      Mul(vertices[(i % Len(vertices)) + 1].x, vertices[i].y)))

\* IShape.getArea
getArea(shape) ==
    CASE shape.cls = "CircleShapeGeometry" -> Mul(Mul(MathPI, shape.radius), shape.radius)
      [] shape.cls = "PolygonShapeGeometry" -> shoelace(shape.vertices, 1, Zero)
      [] OTHER -> Mul(shape.width, shape.height)

\* PolygonShapeGeometry.getBounds: the loop over the vertices from vertex i on
RECURSIVE vertexBounds(_, _, _)
vertexBounds(vertices, i, b) ==
    IF i > Len(vertices) THEN b
    ELSE vertexBounds(vertices, i + 1,
                      [minX |-> MathMin(b.minX, vertices[i].x),
                       minY |-> MathMin(b.minY, vertices[i].y),
                       maxX |-> MathMax(b.maxX, vertices[i].x),
                       maxY |-> MathMax(b.maxY, vertices[i].y)])

\* IShape.getBounds
getBounds(shape) ==
    CASE shape.cls = "CircleShapeGeometry" ->
            [minX |-> Neg(shape.radius), minY |-> Neg(shape.radius),
             maxX |-> shape.radius, maxY |-> shape.radius]
      [] shape.cls = "AABBShapeGeometry" ->
            [minX |-> Div(Neg(shape.width), R(2)), minY |-> Div(Neg(shape.height), R(2)),
             maxX |-> Div(shape.width, R(2)), maxY |-> Div(shape.height, R(2))]
      [] shape.cls = "AABBShape" ->
            [minX |-> shape.minX, minY |-> shape.minY,
             maxX |-> shape.maxX, maxY |-> shape.maxY]
      [] shape.cls = "PolygonShapeGeometry" ->
            vertexBounds(shape.vertices, 1,
                         [minX |-> PInf, minY |-> PInf, maxX |-> NInf, maxY |-> NInf])
      [] OTHER ->
            [minX |-> Zero, minY |-> Zero, maxX |-> shape.width, maxY |-> shape.height]

\* PolygonShapeGeometry.getCentroid: the sum of the vertices from vertex i on
RECURSIVE vertexSum(_, _, _)
vertexSum(vertices, i, c) ==
    IF i > Len(vertices) THEN c ELSE vertexSum(vertices, i + 1, add(c, vertices[i]))

\* IShape.getCentroid
getCentroid(shape) ==
    CASE shape.cls = "RectangleShapeGeometry" ->
            Vector(Div(shape.width, R(2)), Div(shape.height, R(2)))
      [] shape.cls = "AABBShape" ->
            Vector(Div(Add(shape.minX, shape.maxX), R(2)),
                   Div(Add(shape.minY, shape.maxY), R(2)))
      [] shape.cls = "PolygonShapeGeometry" ->
            Vector(Div(vertexSum(shape.vertices, 1, ZeroVec).x, R(Len(shape.vertices))),
                   Div(vertexSum(shape.vertices, 1, ZeroVec).y, R(Len(shape.vertices))))
      [] OTHER -> ZeroVec

\* EntityFactory.calculateMomentOfInertia
calculateMomentOfInertia(shape, mass) ==
    IF shape.type = "CIRCLE"
    THEN Mul(Mul(Mul(Q(1, 2), mass), shape.radius), shape.radius)
    ELSE LET bounds == getBounds(shape)
             width == Sub(bounds.maxX, bounds.minX)
             height == Sub(bounds.maxY, bounds.minY)
         IN  Div(Mul(mass, Add(Mul(width, width), Mul(height, height))), R(12))

\* PhysicsEntity.updateMassFromDensity
updateMassFromDensity(e) ==
    LET area == getArea(e.shape)
        calculatedMass == Mul(area, e.density)
    IN  [e EXCEPT !.body.mass = calculatedMass,
                  !.body.inverseMass =
                      IF Gt(calculatedMass, Zero) THEN Div(One, calculatedMass) ELSE Zero]

\* new PhysicsEntity(body, shape, transform, material, id); the material is
\* given by its density, and isStatic / isKinematic record how the factory
\* was asked to build the entity
PhysicsEntity(rigidBody, shape, transform, density, id, isStatic) ==
    updateMassFromDensity(
        [constructed |-> TRUE, id |-> id, isStatic |-> isStatic, isKinematic |-> FALSE,
         shape |-> shape, transform |-> transform, density |-> density,
         body |-> rigidBody])

\* an optional number of an EntityConfig
Undefined == [defined |-> FALSE, value |-> NaN]
Defined(x) == [defined |-> TRUE, value |-> x]

\* EntityFactory.createEntity(shape, config); config.material is given by its density
createEntity(shape, config) ==
    LET area == getArea(shape)
        finalMass == IF config.isStatic THEN Zero
                     ELSE IF config.mass.defined THEN config.mass.value
                     ELSE Mul(area, config.density)
        finalInertia == IF config.momentOfInertia.defined THEN config.momentOfInertia.value
                        ELSE calculateMomentOfInertia(shape, finalMass)
        b0 == RigidBody(finalMass, config.position, finalInertia)
        transform == Transform(config.position, config.rotation, config.scale)
        b1 == IF config.isStatic
              THEN [b0 EXCEPT !.inverseMass = Zero, !.inverseInertia = Zero]
              ELSE b0
    IN  PhysicsEntity(b1, shape, transform, config.density, 1, config.isStatic)

\* EntityFactory.createStatic(shape, config)
createStatic(shape, config) ==
    createEntity(shape, [config EXCEPT !.isStatic = TRUE, !.mass = Defined(Zero)])

\* EntityFactory.createKinematic(shape, config)
createKinematic(shape, config) ==
    LET e == createEntity(shape, config)
    IN  [e EXCEPT !.body.inverseMass = Zero, !.isKinematic = TRUE]

EntityShapes ==
    { CircleShapeGeometry(One), CircleShapeGeometry(R(2)),
      AABBShapeGeometry(R(2), R(2)), AABBShapeGeometry(R(4), One),
      RectangleShapeGeometry(R(3), R(2)) }

EntityConfigs ==
    [ position : {V(0, 0)},
      rotation : {Zero},
      scale : {V(1, 1)},
      density : {One, Q(1, 2), R(3)},
      mass : {Undefined, Defined(R(5))},
      momentOfInertia : {Undefined, Defined(R(7))},
      isStatic : BOOLEAN ]

IdleWorld ==
    /\ body = <<>>
    /\ bodies = <<>>
    /\ forceBodyPairs = <<>>
    /\ ops = 0
    /\ last = [op |-> "none"]
    /\ material = NoMaterial
    /\ sim = NoSim

InitEntity ==
    /\ IdleWorld
    /\ entity = NoEntity
    /\ det = NoDetect

\* EntityFactory.createCircle / createAABB / createRectangle
CreateEntity(shape, config) ==
    /\ entity' = createEntity(shape, config)
    /\ UNCHANGED <<body, bodies, forceBodyPairs, ops, last, det, material, sim>>

CreateStatic(shape, config) ==
    /\ entity' = createStatic(shape, config)
    /\ UNCHANGED <<body, bodies, forceBodyPairs, ops, last, det, material, sim>>

CreateKinematic(shape, config) ==
    /\ entity' = createKinematic(shape, config)
    /\ UNCHANGED <<body, bodies, forceBodyPairs, ops, last, det, material, sim>>

NextEntity ==
    \/ \E shape \in EntityShapes, config \in EntityConfigs : CreateEntity(shape, config)
    \/ \E shape \in EntityShapes, config \in EntityConfigs : CreateStatic(shape, config)
    \/ \E shape \in EntityShapes, config \in EntityConfigs : CreateKinematic(shape, config)

SpecEntity == InitEntity /\ [][NextEntity]_vars

\* C5: a constructed static entity has inverseMass = inverseInertia = 0, and
\* a constructed entity that is neither static nor kinematic has
\* inverseMass = (mass > 0 ? 1/mass : 0).
C5_StaticEntityHasZeroInverseMass ==
    entity.constructed =>
        /\ entity.isStatic =>
              entity.body.inverseMass = Zero /\ entity.body.inverseInertia = Zero
        /\ (~entity.isStatic /\ ~entity.isKinematic) =>
              entity.body.inverseMass =
                  (IF Gt(entity.body.mass, Zero) THEN Div(One, entity.body.mass) ELSE Zero)

----------------------------------------------------------------------------
(* Narrow-phase algorithms on entities: AABBAABBAlgorithm, AABBCircleAlgorithm *)

\* Transform.transformPoint
transformScaled(t, scaledX, scaledY, cos, sin) ==
    Vector(Add(Sub(Mul(scaledX, cos), Mul(scaledY, sin)), t.position.x),
           Add(Add(Mul(scaledX, sin), Mul(scaledY, cos)), t.position.y))

transformPoint(t, localPoint) ==
    transformScaled(t, Mul(localPoint.x, t.scale.x), Mul(localPoint.y, t.scale.y),
                    MathCos(t.rotation), MathSin(t.rotation))

\* PhysicsEntity.getWorldAABB: the bounds of the four transformed corners
boundsOfCorners(c1, c2, c3, c4) ==
    [minX |-> MathMin(MathMin(MathMin(MathMin(PInf, c1.x), c2.x), c3.x), c4.x),
     minY |-> MathMin(MathMin(MathMin(MathMin(PInf, c1.y), c2.y), c3.y), c4.y),
     maxX |-> MathMax(MathMax(MathMax(MathMax(NInf, c1.x), c2.x), c3.x), c4.x),
     maxY |-> MathMax(MathMax(MathMax(MathMax(NInf, c1.y), c2.y), c3.y), c4.y)]

worldAABBOf(t, localBounds) ==
    boundsOfCorners(transformPoint(t, Vector(localBounds.minX, localBounds.minY)),
                    transformPoint(t, Vector(localBounds.maxX, localBounds.minY)),
                    transformPoint(t, Vector(localBounds.maxX, localBounds.maxY)),
                    transformPoint(t, Vector(localBounds.minX, localBounds.maxY)))

getWorldAABB(e) == worldAABBOf(e.transform, getBounds(e.shape))

\* a variant of aabbOverlap that rejects boxes which only touch
aabbOverlapStrict(aabb1, aabb2) ==
    /\ Gt(aabb1.maxX, aabb2.minX) /\ Lt(aabb1.minX, aabb2.maxX)
    /\ Gt(aabb1.maxY, aabb2.minY) /\ Lt(aabb1.minY, aabb2.maxY)

\* AABBAABBAlgorithm.aabbOverlap
aabbOverlap(aabb1, aabb2) ==
    /\ Ge(aabb1.maxX, aabb2.minX) /\ Le(aabb1.minX, aabb2.maxX)
    /\ Ge(aabb1.maxY, aabb2.minY) /\ Le(aabb1.minY, aabb2.maxY)

\* AABBAABBAlgorithm.detect, split at the values it computes once; boxContact
\* is the contact of two overlapping boxes, along the axis of minimum penetration
boxContact(entityA, entityB, aabbA, aabbB, overlapX, overlapY, contactPoint) ==
    LET centerAX == Div(Add(aabbA.minX, aabbA.maxX), R(2))
        centerBX == Div(Add(aabbB.minX, aabbB.maxX), R(2))
        centerAY == Div(Add(aabbA.minY, aabbA.maxY), R(2))
        centerBY == Div(Add(aabbB.minY, aabbB.maxY), R(2))
    IN  IF Lt(overlapX, overlapY)
        THEN CollisionInfo(entityA.id, entityB.id,
                           Vector(IF Lt(centerAX, centerBX) THEN One ELSE R(-1), Zero),
                           overlapX, contactPoint)
        ELSE CollisionInfo(entityA.id, entityB.id,
                           Vector(Zero, IF Lt(centerAY, centerBY) THEN One ELSE R(-1)),
                           overlapY, contactPoint)

boxOverlap(entityA, entityB, aabbA, aabbB, overlapMinX, overlapMinY, overlapMaxX, overlapMaxY) ==
    boxContact(entityA, entityB, aabbA, aabbB,
               Sub(overlapMaxX, overlapMinX), Sub(overlapMaxY, overlapMinY),
               Vector(Div(Add(overlapMinX, overlapMaxX), R(2)),
                      Div(Add(overlapMinY, overlapMaxY), R(2))))

detectBoxes(entityA, entityB, aabbA, aabbB) ==
    IF ~aabbOverlap(aabbA, aabbB) THEN NullContact
    ELSE boxOverlap(entityA, entityB, aabbA, aabbB,
                    MathMax(aabbA.minX, aabbB.minX), MathMax(aabbA.minY, aabbB.minY),
                    MathMin(aabbA.maxX, aabbB.maxX), MathMin(aabbA.maxY, aabbB.maxY))

AABBAABBAlgorithmDetect(entityA, entityB) ==
    detectBoxes(entityA, entityB, getWorldAABB(entityA), getWorldAABB(entityB))

\* a variant of the radius test that also rejects a circle touching the box
outOfReachOrTouching(distanceMagnitude, circleRadius) ==
    Ge(distanceMagnitude, circleRadius)

\* AABBCircleAlgorithm.detect: distanceMagnitude > circleRadius
outOfReach(distanceMagnitude, circleRadius) ==
    Gt(distanceMagnitude, circleRadius)

\* AABBCircleAlgorithm.detect: the face of the box nearest to an enclosed centre
faceAt(minDist, distToLeft, distToRight, distToTop) ==
    IF minDist = distToLeft THEN V(-1, 0)
    ELSE IF minDist = distToRight THEN V(1, 0)
    ELSE IF minDist = distToTop THEN V(0, -1)
    ELSE V(0, 1)

nearestFaceNormal(worldCircleCenter, aabbBounds) ==
    LET distToLeft == Sub(worldCircleCenter.x, aabbBounds.minX)
        distToRight == Sub(aabbBounds.maxX, worldCircleCenter.x)
        distToTop == Sub(worldCircleCenter.y, aabbBounds.minY)
        distToBottom == Sub(aabbBounds.maxY, worldCircleCenter.y)
    IN  faceAt(MathMin(MathMin(MathMin(distToLeft, distToRight), distToTop), distToBottom),
               distToLeft, distToRight, distToTop)

\* a variant of orientNormal that never flips the normal
orientNormalNever(normal, aabbIsB) == normal

\* AABBCircleAlgorithm.detect: if (aabbEntity === entityB) normal = normal.multiply(-1)
orientNormal(normal, aabbIsB) ==
    IF aabbIsB THEN multiply(normal, R(-1)) ELSE normal

\* AABBCircleAlgorithm.detect, split at the values it computes once: the
\* world bounds, radius and centre, then the closest point, then the distance
circleContact(entityA, entityB, aabbEntity, aabbBounds, circleRadius, worldCircleCenter, closestPoint, distance, distanceMagnitude) ==
    IF outOfReach(distanceMagnitude, circleRadius) THEN NullContact
    ELSE CollisionInfo(entityA.id, entityB.id,
                       orientNormal(IF distanceMagnitude = Zero
                                    THEN nearestFaceNormal(worldCircleCenter, aabbBounds)
                                    ELSE normalize(distance),
                                    aabbEntity.id = entityB.id),
                       Sub(circleRadius, distanceMagnitude),
                       closestPoint)

circleAtDistance(entityA, entityB, aabbEntity, aabbBounds, circleRadius, worldCircleCenter, closestPoint, distance) ==
    circleContact(entityA, entityB, aabbEntity, aabbBounds, circleRadius,
                  worldCircleCenter, closestPoint, distance, magnitude(distance))

circleNearBounds(entityA, entityB, aabbEntity, aabbBounds, circleRadius, worldCircleCenter, closestPoint) ==
    circleAtDistance(entityA, entityB, aabbEntity, aabbBounds, circleRadius,
                     worldCircleCenter, closestPoint,
                     subtract(worldCircleCenter, closestPoint))

circleAndBounds(entityA, entityB, aabbEntity, aabbBounds, circleRadius, worldCircleCenter) ==
    circleNearBounds(entityA, entityB, aabbEntity, aabbBounds, circleRadius,
        worldCircleCenter,
        Vector(MathMax(aabbBounds.minX, MathMin(worldCircleCenter.x, aabbBounds.maxX)),
               MathMax(aabbBounds.minY, MathMin(worldCircleCenter.y, aabbBounds.maxY))))

radiusOf(circleBounds) == Div(Sub(circleBounds.maxX, circleBounds.minX), R(2))

circleAndBox(entityA, entityB, aabbEntity, circleEntity) ==
    circleAndBounds(entityA, entityB, aabbEntity,
                    getWorldAABB(aabbEntity),
                    radiusOf(getBounds(circleEntity.shape)),
                    transformPoint(circleEntity.transform, getCentroid(circleEntity.shape)))

AABBCircleAlgorithmDetect(entityA, entityB) ==
    IF entityA.shape.type = "AABB" /\ entityB.shape.type = "CIRCLE"
    THEN circleAndBox(entityA, entityB, entityA, entityB)
    ELSE IF entityA.shape.type = "CIRCLE" /\ entityB.shape.type = "AABB"
    THEN circleAndBox(entityA, entityB, entityB, entityA)
    ELSE NullContact

\* coordinates of the moving entity: -MaxHalfSteps/2 .. MaxHalfSteps/2 in steps of 1/2
MaxHalfSteps == 4

Coords == { Q(i, 2) : i \in (0 - MaxHalfSteps) .. MaxHalfSteps }

\* an entity as the tests build it: RigidBody(1, position), the shape,
\* a Transform at that position and the default Material
TestEntity(id, shape, position, scale) ==
    PhysicsEntity(RigidBody(One, position, One), shape,
                  Transform(position, Zero, scale), One, id, FALSE)

FixedEntities ==
    { TestEntity(1, AABBShape(R(-1), R(-1), One, One), V(0, 0), V(1, 1)),
      TestEntity(1, AABBShape(R(-2), R(-1), R(2), One), V(0, 0), V(1, 1)),
      TestEntity(1, AABBShape(Zero, Zero, Zero, Zero), V(0, 0), V(1, 1)),
      TestEntity(1, AABBShape(R(-1), R(-1), One, One), V(0, 0), V(-2, 1)),
      TestEntity(1, CircleShapeGeometry(One), V(0, 0), V(1, 1)),
      TestEntity(1, RectangleShapeGeometry(R(2), R(2)), V(0, 0), V(1, 1)) }

MovingShapes ==
    { AABBShape(R(-1), R(-1), One, One),
      AABBShape(Zero, Zero, Zero, Zero),
      AABBShape(Q(-1, 2), Q(-1, 2), Q(1, 2), Q(1, 2)),
      CircleShapeGeometry(One),
      CircleShapeGeometry(Q(1, 2)) }

MovingEntities ==
    { TestEntity(2, shape, Vector(x, y), V(1, 1)) :
          shape \in MovingShapes, x \in Coords, y \in Coords }

DetectPairs ==
    (FixedEntities \X MovingEntities) \cup (MovingEntities \X FixedEntities)

InitDetect ==
    /\ IdleWorld
    /\ entity = NoEntity
    /\ det = NoDetect

\* one call of AABBAABBAlgorithm.detect(entityA, entityB) on a pair p of entities
DetectAABBAABB ==
    /\ ~det.called
    /\ \E p \in DetectPairs :
          det' = [called |-> TRUE, alg |-> "AABBAABB", a |-> p[1], b |-> p[2],
                  result |-> AABBAABBAlgorithmDetect(p[1], p[2])]
    /\ UNCHANGED <<body, bodies, forceBodyPairs, ops, last, entity, material, sim>>

\* one call of AABBCircleAlgorithm.detect(entityA, entityB) on a pair p of entities
DetectAABBCircle ==
    /\ ~det.called
    /\ \E p \in DetectPairs :
          det' = [called |-> TRUE, alg |-> "AABBCircle", a |-> p[1], b |-> p[2],
                  result |-> AABBCircleAlgorithmDetect(p[1], p[2])]
    /\ UNCHANGED <<body, bodies, forceBodyPairs, ops, last, entity, material, sim>>

\* CircleCircleAlgorithm.detect(entityA, entityB): returns null
CircleCircleAlgorithmDetect(entityA, entityB) == NullContact

\* AABBPolygonAlgorithm.detect(entityA, entityB): returns null
AABBPolygonAlgorithmDetect(entityA, entityB) == NullContact

\* the members of enum ShapeType in declaration order, numbered from 0.  AABB
\* is no member: ShapeType.AABB is undefined, which Array.sort puts last and
\* whose name ShapeType[undefined] is undefined.
ShapeTypeMembers == <<"CIRCLE", "POLYGON", "RECTANGLE", "TRAPEZOID">>
ShapeTypeValue(type) ==
    IF \E i \in DOMAIN ShapeTypeMembers : ShapeTypeMembers[i] = type
    THEN (CHOOSE i \in DOMAIN ShapeTypeMembers : ShapeTypeMembers[i] = type) - 1
    ELSE Len(ShapeTypeMembers)
ShapeTypeName(type) ==
    IF ShapeTypeValue(type) < Len(ShapeTypeMembers) THEN type ELSE "undefined"

\* CollisionSystem.getAlgorithmKey(typeA, typeB): the names of the two sorted types
getAlgorithmKey(typeA, typeB) ==
    IF ShapeTypeValue(typeB) < ShapeTypeValue(typeA)
    THEN <<ShapeTypeName(typeB), ShapeTypeName(typeA)>>
    ELSE <<ShapeTypeName(typeA), ShapeTypeName(typeB)>>

\* CollisionSystem.registerDefaultAlgorithms: the keys of this.algorithms
registerDefaultAlgorithms ==
    { <<"AABB", "AABB">>, <<"AABB", "CIRCLE">>, <<"AABB", "POLYGON">>,
      <<"CIRCLE", "CIRCLE">>, <<"CIRCLE", "AABB">>, <<"CIRCLE", "POLYGON">>,
      <<"POLYGON", "POLYGON">>, <<"POLYGON", "AABB">>, <<"POLYGON", "CIRCLE">>,
      <<"RECTANGLE", "RECTANGLE">>, <<"TRAPEZOID", "TRAPEZOID">> }

\* algorithm.detect(entityA, entityB) of the algorithm registered under key;
\* the algorithms other than the three below return null
algorithmDetect(key, entityA, entityB) ==
    CASE key = <<"AABB", "AABB">> -> AABBAABBAlgorithmDetect(entityA, entityB)
      [] key = <<"AABB", "CIRCLE">> -> AABBCircleAlgorithmDetect(entityA, entityB)
      [] key = <<"AABB", "POLYGON">> -> AABBPolygonAlgorithmDetect(entityA, entityB)
      [] key = <<"CIRCLE", "CIRCLE">> -> CircleCircleAlgorithmDetect(entityA, entityB)
      [] OTHER -> NullContact

\* CollisionSystem.detectCollision(entityA, entityB)
detectCollisionWithKey(key, entityA, entityB) ==
    IF key \notin registerDefaultAlgorithms THEN NullContact
    ELSE algorithmDetect(key, entityA, entityB)
CollisionSystemDetectCollision(entityA, entityB) ==
    detectCollisionWithKey(getAlgorithmKey(entityA.shape.type, entityB.shape.type),
                           entityA, entityB)

\* pairs of two circles, and pairs of a box and a polygon given by its vertices
CirclePairs ==
    { p \in DetectPairs : p[1].shape.type = "CIRCLE" /\ p[2].shape.type = "CIRCLE" }

PolygonVertices ==
    { << V(1, 0), V(-1, 1), V(-1, -1) >>,
      << V(1, 0), V(0, 1), V(-1, 0), V(0, -1) >> }

MovingPolygons ==
    { TestEntity(2, PolygonShapeGeometry(vertices), Vector(x, y), V(1, 1)) :
          vertices \in PolygonVertices, x \in Coords, y \in Coords }

PolygonPairs ==
    LET boxes == { e \in FixedEntities : e.shape.type = "AABB" }
    IN  (boxes \X MovingPolygons) \cup (MovingPolygons \X boxes)

\* one call of CircleCircleAlgorithm.detect(entityA, entityB)
DetectCircleCircle ==
    /\ ~det.called
    /\ \E p \in CirclePairs :
          det' = [called |-> TRUE, alg |-> "CircleCircle", a |-> p[1], b |-> p[2],
                  result |-> CircleCircleAlgorithmDetect(p[1], p[2])]
    /\ UNCHANGED <<body, bodies, forceBodyPairs, ops, last, entity, material, sim>>

\* one call of AABBPolygonAlgorithm.detect(entityA, entityB)
DetectAABBPolygon ==
    /\ ~det.called
    /\ \E p \in PolygonPairs :
          det' = [called |-> TRUE, alg |-> "AABBPolygon", a |-> p[1], b |-> p[2],
                  result |-> AABBPolygonAlgorithmDetect(p[1], p[2])]
    /\ UNCHANGED <<body, bodies, forceBodyPairs, ops, last, entity, material, sim>>

\* a behaviour is one call of one of the algorithms
NextDetect ==
    \/ DetectAABBAABB
    \/ DetectAABBCircle
    \/ DetectCircleCircle
    \/ DetectAABBPolygon

SpecDetect == InitDetect /\ [][NextDetect]_vars

\* the unit vectors of the two axes, in both directions
AxisVectors == { V(1, 0), V(-1, 0), V(0, 1), V(0, -1) }

\* the sign a normal component must have to point from centre cA to centre cB
PointsToward(n, cA, cB) ==
    /\ Lt(cA, cB) => n = One
    /\ Gt(cA, cB) => n = R(-1)

\* C8: AABBAABBAlgorithm.detect returns null iff the world AABBs are
\* disjoint (touching, zero-size and containing boxes collide); otherwise
\* depth = min(overlapX, overlapY), the normal is the unit vector of an axis
\* of smallest overlap pointing from A's centre toward B's, the contact
\* point is the centre of the intersection rectangle, and bodyA / bodyB are
\* the bodies of the two entities in argument order.
C8_AABBContact ==
    (det.called /\ det.alg = "AABBAABB") =>
        LET A == getWorldAABB(det.a)
            B == getWorldAABB(det.b)
            disjoint == \/ Lt(A.maxX, B.minX) \/ Lt(B.maxX, A.minX)
                        \/ Lt(A.maxY, B.minY) \/ Lt(B.maxY, A.minY)
            loX == MathMax(A.minX, B.minX)
            hiX == MathMin(A.maxX, B.maxX)
            loY == MathMax(A.minY, B.minY)
            hiY == MathMin(A.maxY, B.maxY)
            overlapX == Sub(hiX, loX)
            overlapY == Sub(hiY, loY)
            r == det.result
        IN  /\ r.isNull <=> disjoint
            /\ ~r.isNull =>
                 /\ r.depth = MathMin(overlapX, overlapY)
                 /\ r.normal \in AxisVectors
                 /\ r.normal.x # Zero =>
                      /\ Le(overlapX, overlapY)
                      /\ PointsToward(r.normal.x, Div(Add(A.minX, A.maxX), R(2)),
                                      Div(Add(B.minX, B.maxX), R(2)))
                 /\ r.normal.y # Zero =>
                      /\ Le(overlapY, overlapX)
                      /\ PointsToward(r.normal.y, Div(Add(A.minY, A.maxY), R(2)),
                                      Div(Add(B.minY, B.maxY), R(2)))
                 /\ r.contactPoint = Vector(Div(Add(loX, hiX), R(2)), Div(Add(loY, hiY), R(2)))
                 /\ r.bodyA = det.a.id /\ r.bodyB = det.b.id

\* two boxes that only touch along an edge are reported as a contact of depth 0
C8_Witness ==
    /\ det.called /\ det.alg = "AABBAABB"
    /\ ~det.result.isNull
    /\ det.result.depth = Zero
    /\ det.a.shape.maxX # det.a.shape.minX /\ det.b.shape.maxX # det.b.shape.minX

\* the box and the circle of a detected pair, and the geometry between them
BoxOf(d) == IF d.a.shape.type = "AABB" THEN d.a ELSE d.b
CircleOf(d) == IF d.a.shape.type = "AABB" THEN d.b ELSE d.a
OneBoxOneCircle(d) ==
    {d.a.shape.type, d.b.shape.type} = {"AABB", "CIRCLE"}
WorldCenter(d) == transformPoint(CircleOf(d).transform, getCentroid(CircleOf(d).shape))
ClosestPoint(d) ==
    LET box == getWorldAABB(BoxOf(d))
        c == WorldCenter(d)
        Clamp(x, lo, hi) == IF Lt(x, lo) THEN lo ELSE IF Gt(x, hi) THEN hi ELSE x
    IN  Vector(Clamp(c.x, box.minX, box.maxX), Clamp(c.y, box.minY, box.maxY))
Distance(d) == magnitude(subtract(WorldCenter(d), ClosestPoint(d)))

\* C9: AABBCircleAlgorithm.detect returns a contact iff one entity is an
\* AABB, the other a circle, and the distance from the circle's world
\* centre to the closest point of the box's world AABB is at most the
\* radius; then depth = radius - distance and the contact point is that
\* closest point; in every other case the result is null.
C9_CircleContact ==
    (det.called /\ det.alg = "AABBCircle") =>
        LET r == det.result
            radius == CircleOf(det).shape.radius
        IN  /\ ~r.isNull <=> (OneBoxOneCircle(det) /\ Le(Distance(det), radius))
            /\ ~r.isNull =>
                 /\ r.depth = Sub(radius, Distance(det))
                 /\ r.contactPoint = ClosestPoint(det)

\* a circle whose centre is outside the box and which reaches into it
C9_Witness ==
    /\ det.called /\ det.alg = "AABBCircle"
    /\ ~det.result.isNull
    /\ Gt(Distance(det), Zero)
    /\ Gt(det.result.depth, Zero)

\* C10: the normal of an AABB-circle contact points from entity A toward
\* entity B: from the box toward the circle for detect(box, circle), and
\* for detect(circle, box) it is the exact negation with the same depth and
\* contact point; with the circle's centre inside the box the box-to-circle
\* normal is the outward direction of a box face nearest to the centre.
C10_CircleNormal ==
    (det.called /\ det.alg = "AABBCircle" /\ ~det.result.isNull) =>
        LET r == det.result
            rev == AABBCircleAlgorithmDetect(det.b, det.a)
            box == getWorldAABB(BoxOf(det))
            c == WorldCenter(det)
            boxCenter == Vector(Div(Add(box.minX, box.maxX), R(2)),
                                Div(Add(box.minY, box.maxY), R(2)))
            aIsBox == det.a.shape.type = "AABB"
            fromBox == IF aIsBox THEN r.normal ELSE multiply(r.normal, R(-1))
            outward == subtract(c, ClosestPoint(det))
            distToLeft == Sub(c.x, box.minX)
            distToRight == Sub(box.maxX, c.x)
            distToTop == Sub(c.y, box.minY)
            distToBottom == Sub(box.maxY, c.y)
            minDist == MathMin(MathMin(distToLeft, distToRight),
                               MathMin(distToTop, distToBottom))
        IN  /\ ~rev.isNull
            /\ rev.normal = multiply(r.normal, R(-1))
            /\ rev.depth = r.depth
            /\ rev.contactPoint = r.contactPoint
            /\ rev.bodyA = r.bodyB /\ rev.bodyB = r.bodyA
            /\ Ge(dot(fromBox, subtract(c, boxCenter)), Zero)
            /\ outward # ZeroVec =>
                 /\ cross(fromBox, outward) = Zero
                 /\ Gt(dot(fromBox, outward), Zero)
            /\ outward = ZeroVec =>
                 /\ fromBox \in AxisVectors
                 /\ fromBox = V(-1, 0) => distToLeft = minDist
                 /\ fromBox = V(1, 0) => distToRight = minDist
                 /\ fromBox = V(0, -1) => distToTop = minDist
                 /\ fromBox = V(0, 1) => distToBottom = minDist

\* detect(circle, box) with the circle's centre strictly inside the box
C10_Witness ==
    /\ det.called /\ det.alg = "AABBCircle"
    /\ ~det.result.isNull
    /\ det.a.shape.type = "CIRCLE"
    /\ Distance(det) = Zero
    /\ det.result.normal \in AxisVectors
    /\ LET box == getWorldAABB(BoxOf(det))
       IN  Lt(box.minX, WorldCenter(det).x) /\ Lt(WorldCenter(det).x, box.maxX)


----------------------------------------------------------------------------
(* Circle-circle and box-polygon detection *)

\* the centre of an entity's shape in world coordinates
WorldCentroid(e) == transformPoint(e.transform, getCentroid(e.shape))

\* the centre of an entity lies strictly inside a box; two boxes are disjoint
CentroidInside(e, box) ==
    /\ Lt(box.minX, WorldCentroid(e).x) /\ Lt(WorldCentroid(e).x, box.maxX)
    /\ Lt(box.minY, WorldCentroid(e).y) /\ Lt(WorldCentroid(e).y, box.maxY)
BoundsApart(b1, b2) ==
    \/ Lt(b1.maxX, b2.minX) \/ Lt(b2.maxX, b1.minX)
    \/ Lt(b1.maxY, b2.minY) \/ Lt(b2.maxY, b1.minY)

\* C11: two circles whose centres are d apart collide iff d <= r1 + r2, with
\* depth r1 + r2 - d (compared through the squares, which are exact); a box
\* and a polygon whose centre lies strictly inside the box yield a contact
\* with depth > 0 in either argument order, and a box and a polygon with
\* disjoint bounds yield null.
C11_RegisteredPairsReportOverlap ==
    /\ (det.called /\ det.alg = "CircleCircle") =>
          LET d2 == lengthSquared(subtract(WorldCentroid(det.b), WorldCentroid(det.a)))
              rsum == Add(det.a.shape.radius, det.b.shape.radius)
          IN  /\ ~det.result.isNull <=> Le(d2, Sq(rsum))
              /\ ~det.result.isNull =>
                    /\ Le(det.result.depth, rsum)
                    /\ Sq(Sub(rsum, det.result.depth)) = d2
    /\ (det.called /\ det.alg = "AABBPolygon") =>
          LET box == IF det.a.shape.type = "AABB" THEN det.a ELSE det.b
              polygon == IF det.a.shape.type = "AABB" THEN det.b ELSE det.a
          IN  /\ CentroidInside(polygon, getWorldAABB(box)) =>
                    ~det.result.isNull /\ Gt(det.result.depth, Zero)
              /\ BoundsApart(getWorldAABB(box), getWorldAABB(polygon)) =>
                    det.result.isNull


----------------------------------------------------------------------------
(* CollisionDectector, SATCollisionDetector and CollisionSystem on bounded inputs *)

\* the shapes a body of the detector's input may carry: two rectangles that
\* overlap, rectangles with an invalid AABB (min > max, NaN, infinite), a
\* circle at the origin, a circle over a corner of the second rectangle, and
\* no shape
WorldShapes(id) ==
    << RectangleShape(R(2), R(2), V(0, 0), id),
       RectangleShape(R(2), R(2), V(1, 1), id),
       RectangleShape(R(-1), R(2), V(1, 1), id),
       RectangleShape(R(2), R(2), Vector(NaN, Zero), id),
       RectangleShape(PInf, R(2), V(0, 0), id),
       CircleShape(One, V(0, 0), id),
       CircleShape(One, V(3, 3), id),
       NoShape >>

\* the shapes handed to the SAT detector: those, and rectangles that touch
\* the first one, lie apart from it, or have no parent
CollideShapes(id) ==
    ({ WorldShapes(id)[k] : k \in DOMAIN WorldShapes(id) } \ {NoShape})
    \cup { RectangleShape(R(2), R(2), V(2, 0), id),
           RectangleShape(One, One, V(5, 5), id),
           RectangleShape(R(2), R(2), V(0, 1), 0) }

CollideBody(id, shape) == [RigidBody(One, ZeroVec, One) EXCEPT !.shape = shape]

CollideWorlds ==
    { [id \in 1..MaxBodies |-> CollideBody(id, WorldShapes(id)[k[id]])] :
          k \in [1..MaxBodies -> DOMAIN WorldShapes(1)] }

\* the entities handed to CollisionSystem.detectCollision: one per shape type pair
SystemEntities ==
    FixedEntities \cup { TestEntity(1, PolygonShapeGeometry(vertices), V(0, 0), V(1, 1)) :
                             vertices \in PolygonVertices }

InitCollide ==
    /\ IdleWorld
    /\ entity = NoEntity
    /\ det = NoDetect

\* the arrays handed to detectCollisions: every body once, and body 1 twice
\* (PhysicsWorld.addBody pushes without a duplicate check)
DetectLists == { [i \in 1..MaxBodies |-> i], <<1, 2, 1>> }

\* one call of CollisionDectector.detectCollisions(bodies) on a list of bodies
DetectCollisions ==
    /\ last.op = "none" /\ ~det.called
    /\ \E w \in CollideWorlds, list \in DetectLists :
          /\ body' = w
          /\ bodies' = list
          /\ last' = [op |-> "detectCollisions",
                      threw |-> detectCollisionsThrows(list, w),
                      contacts |-> IF detectCollisionsThrows(list, w)
                                   THEN <<>>
                                   ELSE detectCollisions(list, w)]
    /\ UNCHANGED <<forceBodyPairs, ops, entity, det, material, sim>>

\* one call of SATCollisionDetector.detectCollision(shapeA, shapeB)
SATDetectCollision ==
    /\ last.op = "none" /\ ~det.called
    /\ \E shapeA \in CollideShapes(1), shapeB \in CollideShapes(2) :
          last' = [op |-> "satDetectCollision", shapeA |-> shapeA, shapeB |-> shapeB,
                   threw |-> satDetectCollisionThrows(shapeA, shapeB),
                   result |-> IF satDetectCollisionThrows(shapeA, shapeB)
                              THEN NullContact
                              ELSE satDetectCollision(shapeA, shapeB)]
    /\ UNCHANGED <<body, bodies, forceBodyPairs, ops, entity, det, material, sim>>

\* one call of CollisionSystem.detectCollision(entityA, entityB)
DetectCollisionSystem ==
    /\ last.op = "none" /\ ~det.called
    /\ \E entityA \in SystemEntities, entityB \in SystemEntities :
          det' = [called |-> TRUE, alg |-> "CollisionSystem", a |-> entityA, b |-> entityB,
                  result |-> CollisionSystemDetectCollision(entityA, entityB)]
    /\ UNCHANGED <<body, bodies, forceBodyPairs, ops, last, entity, material, sim>>

\* the shapes whose bounding box is asked for: the detector's shapes, and
\* trapezoids that widen, narrow, or cross over towards the bottom
BoxedShapes ==
    ({ WorldShapes(1)[k] : k \in DOMAIN WorldShapes(1) } \ {NoShape})
    \cup { TrapezoidShape(width, height, slope, position) :
              width \in {One, R(2)}, height \in {Zero, One, R(2)},
              slope \in {Zero, Q(1, 2), Q(-1, 2), R(-2)},
              position \in {V(0, 0), V(1, -1)} }

\* one call of shape.getAABB()
GetAABB ==
    /\ last.op = "none" /\ ~det.called
    /\ \E shape \in BoxedShapes :
          last' = [op |-> "getAABB", shape |-> shape, result |-> getAABB(shape)]
    /\ UNCHANGED <<body, bodies, forceBodyPairs, ops, entity, det, material, sim>>

NextCollide ==
    \/ DetectCollisions
    \/ SATDetectCollision
    \/ DetectCollisionSystem
    \/ GetAABB

SpecCollide == InitCollide /\ [][NextCollide]_vars

\* the pairs of detectCollisions' input whose detection is sound: both bodies
\* carry a rectangle with a valid AABB; and those of them that collide
SoundPair(i, j) ==
    /\ body[i].shape.type = "RECTANGLE" /\ isValidAABB(getAABB(body[i].shape))
    /\ body[j].shape.type = "RECTANGLE" /\ isValidAABB(getAABB(body[j].shape))
CollidingPair(i, j) ==
    /\ i < j
    /\ SoundPair(i, j)
    /\ ~satDetectCollision(body[i].shape, body[j].shape).isNull

\* C12: detectCollisions never throws; it returns a contact for exactly the
\* colliding pairs of bodies with sound shapes, whatever the other bodies
\* carry (an invalid AABB, no shape, a shape whose axis gathering fails); and
\* CollisionSystem.detectCollision returns null for a shape-type pair without
\* a registered algorithm.
C12_DetectionNeverThrowsNorLosesPairs ==
    /\ last.op = "detectCollisions" =>
          /\ ~last.threw
          /\ \A i, j \in DOMAIN body :
                CollidingPair(i, j) <=>
                    \E k \in DOMAIN last.contacts :
                        last.contacts[k].bodyA = i /\ last.contacts[k].bodyB = j
    /\ (det.called /\ det.alg = "CollisionSystem") =>
          (getAlgorithmKey(det.a.shape.type, det.b.shape.type) \notin registerDefaultAlgorithms
              => det.result.isNull)

\* the same property on the inputs whose narrow phase does not fail
C12_HoldsWithoutCircles ==
    ((\A i \in DOMAIN body : body[i].shape.type # "CIRCLE")
        /\ bodies = [i \in DOMAIN bodies |-> i])
        => C12_DetectionNeverThrowsNorLosesPairs


----------------------------------------------------------------------------
(* PhysicsWorld.resolveCollisions on bounded inputs *)

\* a body given by its inverse mass and inverse inertia
ResolveBody(invMass, invInertia, e, position, velocity, angularVelocity) ==
    [RigidBody(IF invMass = Zero THEN Zero ELSE Div(One, invMass), position,
               IF invInertia = Zero THEN Zero ELSE Div(One, invInertia)) EXCEPT
        !.velocity = velocity, !.angularVelocity = angularVelocity,
        !.inverseMass = invMass, !.inverseInertia = invInertia, !.restitution = e]

\* bodies 1 and 2 lie at (0,0) and (2,0); body 3 lies below body 1 and moves up
\* into it
ResolveWorlds ==
    { << ResolveBody(invMassA, invInertia, eA, V(0, 0), vA, wA),
         ResolveBody(invMassB, invInertia, One, V(2, 0), vB, Zero),
         ResolveBody(One, Zero, One, V(0, -2), V(0, 2), Zero) >> :
          invMassA \in {Zero, One, Q(1, 2)}, invMassB \in {Zero, One},
          invInertia \in {Zero, One}, eA \in {One, Q(1, 2)},
          vA \in {V(0, 0), V(1, 0), V(1, 1), V(-1, 0)}, vB \in {V(-1, 0), V(0, 0)},
          wA \in {Zero, One} }

\* contacts between bodies 1 and 2, and the contact between bodies 3 and 1
ResolveContacts ==
    { CollisionPair(1, 2, CollisionInfo(1, 2, normal, depth, contactPoint)) :
          normal \in {V(1, 0), Vector(Q(3, 5), Q(4, 5))},
          depth \in {Zero, Q(1, 100), Q(63, 50)},
          contactPoint \in {V(1, 0), V(1, 1)} }

ContactBelow == CollisionPair(3, 1, CollisionInfo(3, 1, V(0, 1), Zero, V(0, -1)))

ResolveLists ==
    { <<c>> : c \in ResolveContacts } \cup { <<c, ContactBelow>> : c \in ResolveContacts }

InitResolve ==
    /\ IdleWorld
    /\ entity = NoEntity
    /\ det = NoDetect

\* one call of resolveCollisions(collisions) in a world of three bodies
ResolveCollisions ==
    /\ last.op = "none"
    /\ \E w \in ResolveWorlds, collisions \in ResolveLists :
          /\ body' = resolveCollisions(w, collisions)
          /\ last' = [op |-> "resolveCollisions", pre |-> w, collisions |-> collisions]
    /\ bodies' = <<1, 2, 3>>
    /\ UNCHANGED <<forceBodyPairs, ops, entity, det, material, sim>>

NextResolve == ResolveCollisions

SpecResolve == InitResolve /\ [][NextResolve]_vars


\* the first contact of the resolved list, its two bodies before the call, and
\* the quantities resolveCollisions derives from them
Resolved == last.op = "resolveCollisions"
Contact == last.collisions[1].info
PreA == last.pre[last.collisions[1].bodyA]
PreB == last.pre[last.collisions[1].bodyB]
PostA == body[last.collisions[1].bodyA]
PostB == body[last.collisions[1].bodyB]
RvPre == getRelativeVelocity(PreA, PreB, Contact.contactPoint)
Separating == Gt(dot(RvPre, Contact.normal), Zero)
OffsetA == subtract(Contact.contactPoint, PreA.position)
OffsetB == subtract(Contact.contactPoint, PreB.position)
InvMassSum == Add(PreA.inverseMass, PreB.inverseMass)
Denominator ==
    Add(InvMassSum,
        Add(Mul(PreA.inverseInertia, Sq(cross(OffsetA, Contact.normal))),
            Mul(PreB.inverseInertia, Sq(cross(OffsetB, Contact.normal)))))
Restitution == MathMin(PreA.restitution, PreB.restitution)
NormalImpulse == Div(Mul(Neg(Add(One, Restitution)), dot(RvPre, Contact.normal)), Denominator)

\* C13: a contact whose bodies already separate (relative velocity at the
\* contact point has a positive component along the normal) gets no impulse:
\* velocity and angular velocity of both bodies stay as they were, and the
\* rest of the list is processed as if the contact were not in it.
C13_SeparatingContactSkipped ==
    (Resolved /\ Separating) =>
        /\ PostB.velocity = PreB.velocity
        /\ PostB.angularVelocity = PreB.angularVelocity
        /\ Len(last.collisions) = 1 =>
              /\ PostA.velocity = PreA.velocity
              /\ PostA.angularVelocity = PreA.angularVelocity
        /\ body = resolveCollisions(last.pre, Tail(last.collisions))
        /\ Len(last.collisions) = 2 => body[3].velocity # last.pre[3].velocity

C13_Witness ==
    /\ Resolved /\ Separating
    /\ Len(last.collisions) = 2
    /\ body[3].velocity # last.pre[3].velocity
    /\ PostB.velocity = PreB.velocity

\* the two bodies with their velocities after the call at their positions before it
PostAtPreA == [PostA EXCEPT !.position = PreA.position]
PostAtPreB == [PostB EXCEPT !.position = PreB.position]

\* a head-on approach of equal masses: no spin, velocities along the normal,
\* contact point on the line through both centres
HeadOn ==
    /\ PreA.inverseMass = PreB.inverseMass
    /\ PreA.angularVelocity = Zero /\ PreB.angularVelocity = Zero
    /\ cross(PreA.velocity, Contact.normal) = Zero
    /\ cross(PreB.velocity, Contact.normal) = Zero
    /\ cross(OffsetA, Contact.normal) = Zero
    /\ cross(OffsetB, Contact.normal) = Zero

\* C14: for an approaching contact with a positive denominator the impulse
\* j = -(1 + e) (rv . n) / denominator, e the smaller restitution, is applied
\* along the normal and leaves the contact point's relative velocity along
\* the normal at -e times its value before; a head-on approach of equal
\* masses with e = 1 swaps the two velocities and changes no angular velocity.
C14_NormalImpulse ==
    (/\ Resolved /\ Len(last.collisions) = 1
     /\ Lt(dot(RvPre, Contact.normal), Zero)
     /\ Gt(Denominator, Zero)) =>
        /\ dot(subtract(PostA.velocity, PreA.velocity), Contact.normal)
              = Neg(Mul(NormalImpulse, PreA.inverseMass))
        /\ dot(subtract(PostB.velocity, PreB.velocity), Contact.normal)
              = Mul(NormalImpulse, PreB.inverseMass)
        /\ dot(getRelativeVelocity(PostAtPreA, PostAtPreB, Contact.contactPoint),
               Contact.normal)
              = Mul(Neg(Restitution), dot(RvPre, Contact.normal))
        /\ (HeadOn /\ Restitution = One) =>
              /\ PostA.velocity = PreB.velocity
              /\ PostB.velocity = PreA.velocity
              /\ PostA.angularVelocity = PreA.angularVelocity
              /\ PostB.angularVelocity = PreB.angularVelocity

C14_Witness ==
    /\ Resolved /\ Len(last.collisions) = 1
    /\ Lt(dot(RvPre, Contact.normal), Zero)
    /\ HeadOn /\ Restitution = One /\ Gt(PreA.inverseMass, Zero)
    /\ PreA.velocity # PreB.velocity
    /\ PostA.velocity = PreB.velocity /\ PostB.velocity = PreA.velocity

\* C15: with depth <= 0.01 both positions stay; with depth > 0.01 a resolved
\* contact moves A by -c invMassA n and B by +c invMassB n, where
\* c = 0.8 (depth - 0.01) / (invMassA + invMassB), so the separation along the
\* normal grows by 0.8 (depth - 0.01), and a body with inverseMass 0 stays.
C15_PositionalCorrection ==
    (Resolved /\ Len(last.collisions) = 1) =>
        LET slack == Mul(Q(8, 10), Sub(Contact.depth, Q(1, 100)))
            c == Div(slack, InvMassSum)
        IN  /\ Le(Contact.depth, Q(1, 100)) =>
                  PostA.position = PreA.position /\ PostB.position = PreB.position
            /\ (Gt(Contact.depth, Q(1, 100)) /\ ~Separating) =>
                  /\ PostA.position = subtract(PreA.position,
                          multiply(Contact.normal, Mul(c, PreA.inverseMass)))
                  /\ PostB.position = add(PreB.position,
                          multiply(Contact.normal, Mul(c, PreB.inverseMass)))
                  /\ Sub(dot(subtract(PostB.position, PostA.position), Contact.normal),
                         dot(subtract(PreB.position, PreA.position), Contact.normal))
                        = slack
                  /\ PreA.inverseMass = Zero => PostA.position = PreA.position
                  /\ PreB.inverseMass = Zero => PostB.position = PreB.position

\* the same property for contacts in which at least one body can move
C15_HoldsForMovableBodies ==
    (Resolved /\ Gt(InvMassSum, Zero)) => C15_PositionalCorrection

\* the friction impulse of the call, recovered from the velocity changes that
\* the normal impulse does not account for
TangentialVelocity == subtract(RvPre, multiply(Contact.normal, dot(RvPre, Contact.normal)))
FrictionChangeA ==
    subtract(PostA.velocity,
             subtract(PreA.velocity,
                      multiply(Contact.normal, Mul(NormalImpulse, PreA.inverseMass))))
FrictionChangeB ==
    subtract(PostB.velocity,
             add(PreB.velocity,
                 multiply(Contact.normal, Mul(NormalImpulse, PreB.inverseMass))))
FrictionImpulse ==
    IF PreA.inverseMass # Zero
    THEN multiply(FrictionChangeA, Neg(Div(One, PreA.inverseMass)))
    ELSE multiply(FrictionChangeB, Div(One, PreB.inverseMass))

\* C16: the friction impulse of a resolved contact with a finite normal
\* impulse j >= 0 (positive denominator) lies along the contact tangent, points against the relative tangential
\* velocity, is no longer than 0.2 j, acts on A with the opposite sign and on
\* B with its own sign, each scaled by the inverse mass (so two bodies of
\* inverse mass 0 keep their velocities), and is zero when the relative
\* velocity has no tangential component.
C16_FrictionImpulse ==
    (/\ Resolved /\ Len(last.collisions) = 1 /\ ~Separating
     /\ Gt(Denominator, Zero) /\ Ge(NormalImpulse, Zero)) =>
        IF InvMassSum = Zero
        THEN FrictionChangeA = ZeroVec /\ FrictionChangeB = ZeroVec
        ELSE /\ FrictionChangeA = multiply(FrictionImpulse, Neg(PreA.inverseMass))
             /\ FrictionChangeB = multiply(FrictionImpulse, PreB.inverseMass)
             /\ cross(FrictionImpulse, TangentialVelocity) = Zero
             /\ Le(dot(FrictionImpulse, TangentialVelocity), Zero)
             /\ Le(lengthSquared(FrictionImpulse), Sq(Mul(Q(2, 10), NormalImpulse)))
             /\ TangentialVelocity = ZeroVec => FrictionImpulse = ZeroVec

C16_Witness ==
    /\ Resolved /\ Len(last.collisions) = 1 /\ ~Separating
    /\ Gt(NormalImpulse, Zero)
    /\ TangentialVelocity # ZeroVec
    /\ FrictionImpulse # ZeroVec
    /\ Lt(dot(FrictionImpulse, TangentialVelocity), Zero)
    /\ lengthSquared(FrictionImpulse) = Sq(Mul(Q(2, 10), NormalImpulse))


----------------------------------------------------------------------------
\* Material: construction and the three coefficient setters

\* the parameter defaults of the Material constructor
DefaultDensity == One
DefaultFriction == Q(1, 10)
DefaultRestitution == Q(1, 2)
DefaultStaticFriction == Q(1, 2)
DefaultFrictionAir == Q(1, 100)

\* Material.setDensity(density): the guard that throws
setDensityThrows(density) == Le(density, Zero)
setDensity(m, density) == [m EXCEPT !.density = density]

\* Material.setFriction(friction)
setFrictionThrows(friction) == Lt(friction, Zero) \/ Gt(friction, One)
setFriction(m, friction) == [m EXCEPT !.friction = friction]

\* Material.setRestitution(restitution)
setRestitutionThrows(restitution) == Lt(restitution, Zero) \/ Gt(restitution, One)
setRestitution(m, restitution) == [m EXCEPT !.restitution = restitution]

\* the numbers a caller passes: valid ones, the ends of the ranges, numbers
\* outside the ranges and NaN
DensityValues == { R(-1), Zero, DefaultDensity, R(2), NaN }
CoefficientValues == { Q(-1, 2), Zero, DefaultFriction, DefaultRestitution, One, R(2), NaN }

InitMaterial ==
    /\ IdleWorld
    /\ entity = NoEntity
    /\ det = NoDetect

\* new Material(density, friction, restitution) with the other two defaulted
NewMaterial ==
    /\ ~material.constructed
    /\ \E density \in DensityValues, friction \in CoefficientValues, restitution \in CoefficientValues :
          /\ material' = Material(density, friction, restitution,
                                  DefaultStaticFriction, DefaultFrictionAir)
          /\ last' = [op |-> "new Material", arg |-> density, threw |-> FALSE, pre |-> material]
    /\ UNCHANGED <<body, bodies, forceBodyPairs, ops, entity, det, sim>>

SetDensity ==
    /\ material.constructed
    /\ \E density \in DensityValues :
          /\ material' = IF setDensityThrows(density) THEN material
                         ELSE setDensity(material, density)
          /\ last' = [op |-> "setDensity", arg |-> density,
                      threw |-> setDensityThrows(density), pre |-> material]
    /\ UNCHANGED <<body, bodies, forceBodyPairs, ops, entity, det, sim>>

SetFriction ==
    /\ material.constructed
    /\ \E friction \in CoefficientValues :
          /\ material' = IF setFrictionThrows(friction) THEN material
                         ELSE setFriction(material, friction)
          /\ last' = [op |-> "setFriction", arg |-> friction,
                      threw |-> setFrictionThrows(friction), pre |-> material]
    /\ UNCHANGED <<body, bodies, forceBodyPairs, ops, entity, det, sim>>

SetRestitution ==
    /\ material.constructed
    /\ \E restitution \in CoefficientValues :
          /\ material' = IF setRestitutionThrows(restitution) THEN material
                         ELSE setRestitution(material, restitution)
          /\ last' = [op |-> "setRestitution", arg |-> restitution,
                      threw |-> setRestitutionThrows(restitution), pre |-> material]
    /\ UNCHANGED <<body, bodies, forceBodyPairs, ops, entity, det, sim>>

NextMaterial ==
    \/ NewMaterial
    \/ SetDensity
    \/ SetFriction
    \/ SetRestitution

SpecMaterial == InitMaterial /\ [][NextMaterial]_vars

ValidDensity(density) == Gt(density, Zero)
ValidCoefficient(c) == Ge(c, Zero) /\ Le(c, One)
MaterialCalled == last.op \in {"new Material", "setDensity", "setFriction", "setRestitution"}

\* C17: a constructed material has density > 0 and friction and restitution
\* in [0,1] at every time; a call that throws leaves the material as it was.
C17_MaterialCoefficientsValid ==
    (MaterialCalled /\ material.constructed) =>
        /\ ValidDensity(material.density)
        /\ ValidCoefficient(material.friction)
        /\ ValidCoefficient(material.restitution)
        /\ last.threw => material = last.pre

\* the setters reject every number outside the range and leave the material
\* as it was; NaN is not a number outside the range
C17_SettersRejectOutOfRange ==
    (MaterialCalled /\ last.op # "new Material" /\ ~IsNaN(last.arg)) =>
        /\ last.threw <=> CASE last.op = "setDensity" -> ~ValidDensity(last.arg)
                             [] OTHER -> ~ValidCoefficient(last.arg)
        /\ last.threw => material = last.pre


----------------------------------------------------------------------------
\* SpringForce.apply on springs of one and of two attachments

\* new SpringForce(restLength, springConstant, firstBody, firstLocalPoint,
\* secondBody, secondLocalPoint); secondBody = 0 when it is not given
SpringForce(restLength, springConstant, firstBody, firstLocalPoint, secondBody, secondLocalPoint) ==
    [type |-> "SPRING", restLength |-> restLength, springConstant |-> springConstant,
     firstBody |-> firstBody, firstLocalPoint |-> firstLocalPoint,
     secondBody |-> secondBody, secondLocalPoint |-> secondLocalPoint]

\* where the second body is and where the two attachment points are on their
\* bodies: centred and off-centre, across the line of centres and along it,
\* and both points in one place
SpringLayouts ==
    { [second |-> V(3, 0), firstLocalPoint |-> V(0, 0), secondLocalPoint |-> V(0, 0)],
      [second |-> V(3, 4), firstLocalPoint |-> V(0, 0), secondLocalPoint |-> V(0, 0)],
      [second |-> V(10, 0), firstLocalPoint |-> V(0, 0), secondLocalPoint |-> V(-5, 0)],
      [second |-> V(3, 6), firstLocalPoint |-> V(0, 1), secondLocalPoint |-> V(0, -1)],
      [second |-> V(5, 0), firstLocalPoint |-> V(1, 0), secondLocalPoint |-> V(-1, 0)],
      [second |-> V(0, 0), firstLocalPoint |-> V(0, 0), secondLocalPoint |-> V(0, 0)] }

SpringWorld(layout, force) ==
    << addForce(RigidBody(One, V(0, 0), One), force), RigidBody(One, layout.second, One) >>

Springs(layout) ==
    { SpringForce(restLength, springConstant, 1, layout.firstLocalPoint, secondBody, layout.secondLocalPoint) :
        restLength \in {One, R(5), R(10)}, springConstant \in {R(2), Q(1, 2)}, secondBody \in {0, 2} }

InitSpring ==
    /\ IdleWorld
    /\ entity = NoEntity
    /\ det = NoDetect

\* spring.apply(body) on a new spring and one of the two bodies
ApplySpring ==
    /\ last.op = "none"
    /\ \E layout \in SpringLayouts, force \in {V(0, 0), V(1, 1)}, id \in {1, 2} :
          \E fo \in Springs(layout) :
             /\ body' = [SpringWorld(layout, force) EXCEPT
                            ![id] = SpringApply(fo, id, SpringWorld(layout, force))]
             /\ last' = [op |-> "apply", fo |-> fo, id |-> id, applied |-> {id},
                         pre |-> SpringWorld(layout, force)]
    /\ bodies' = <<1, 2>>
    /\ UNCHANGED <<forceBodyPairs, ops, entity, det, material, sim>>

\* spring.apply(body) on the other body
ApplySpringToOther ==
    /\ last.op = "apply"
    /\ last.applied = {last.id}
    /\ body' = [body EXCEPT ![3 - last.id] = SpringApply(last.fo, 3 - last.id, body)]
    /\ last' = [last EXCEPT !.applied = {1, 2}]
    /\ UNCHANGED <<bodies, forceBodyPairs, ops, entity, det, material, sim>>

NextSpring ==
    \/ ApplySpring
    \/ ApplySpringToOther

SpecSpring == InitSpring /\ [][NextSpring]_vars

\* the world attachment points of the applied spring (no body is rotated),
\* their distance, and what apply added to the accumulators
SpringApplied == last.op = "apply"
FirstPoint == add(last.pre[1].position, last.fo.firstLocalPoint)
SecondPoint == add(last.pre[2].position, last.fo.secondLocalPoint)
SpringLine == subtract(SecondPoint, FirstPoint)
SpringLength == MathSqrt(lengthSquared(SpringLine))
AddedForce(id) == subtract(body[id].forceAccumulator, last.pre[id].forceAccumulator)
AddedTorque(id) == Sub(body[id].torqueAccumulator, last.pre[id].torqueAccumulator)
TwoBodySpring == SpringApplied /\ last.fo.secondBody = 2

\* Hooke's law on the first body and its mirror image on the second
HookeOnFirst ==
    /\ lengthSquared(AddedForce(1))
          = Sq(Mul(last.fo.springConstant, Sub(SpringLength, last.fo.restLength)))
    /\ cross(AddedForce(1), SpringLine) = Zero
    /\ Gt(SpringLength, last.fo.restLength) => Gt(dot(AddedForce(1), SpringLine), Zero)
    /\ Lt(SpringLength, last.fo.restLength) => Lt(dot(AddedForce(1), SpringLine), Zero)
    /\ AddedTorque(1) = cross(subtract(FirstPoint, last.pre[1].position), AddedForce(1))
OppositeOnSecond ==
    /\ AddedForce(2) = multiply(AddedForce(1), R(-1))
    /\ AddedTorque(2) = cross(subtract(SecondPoint, last.pre[2].position), AddedForce(2))

C19_AnchoredSpringAddsForce ==
    (/\ SpringApplied /\ last.fo.secondBody = 0 /\ 1 \in last.applied
     /\ Gt(last.fo.restLength, Zero) /\ Gt(last.fo.springConstant, Zero)) =>
        AddedForce(1) # ZeroVec


----------------------------------------------------------------------------
\* the overlaps of the projections on the axes the SAT detector tested

SATCalled == last.op = "satDetectCollision" /\ ~last.threw
TestedAxes == getShapesAxes(last.shapeA, last.shapeB)
OverlapOn(axis) ==
    LET a == project(last.shapeA, axis)
        b == project(last.shapeB, axis)
    IN  MathMin(Sub(a.max, b.min), Sub(b.max, a.min))
Overlaps == { OverlapOn(TestedAxes[k]) : k \in DOMAIN TestedAxes }

\* C20: the SAT detector returns no collision when some tested axis shows
\* zero or negative overlap, and returns a contact only when every tested
\* axis shows strictly positive overlap, with the least overlap as depth.
C20_TouchingIsNotColliding ==
    SATCalled =>
        /\ (\E o \in Overlaps : Le(o, Zero)) => last.result.isNull
        /\ ~last.result.isNull =>
              /\ \A o \in Overlaps : Gt(o, Zero)
              /\ last.result.depth \in Overlaps
              /\ \A o \in Overlaps : Le(last.result.depth, o)

\* the same for shapes of finite coordinates with touching projections
\* counted as overlapping
C20_HoldsForNonNegativeOverlap ==
    (SATCalled /\ \A o \in Overlaps : IsFinite(o)) =>
        /\ (\E o \in Overlaps : Lt(o, Zero)) => last.result.isNull
        /\ ~last.result.isNull =>
              /\ \A o \in Overlaps : Ge(o, Zero)
              /\ last.result.depth \in Overlaps
              /\ \A o \in Overlaps : Le(last.result.depth, o)


----------------------------------------------------------------------------
\* well-formedness of the contacts the detectors return

ShapeCentre(s) ==
    Vector(Add(s.position.x, Div(s.width, R(2))), Add(s.position.y, Div(s.height, R(2))))
BoxIntersectionMidpoint(a, b) ==
    Vector(Div(Add(MathMax(a.minX, b.minX), MathMin(a.maxX, b.maxX)), R(2)),
           Div(Add(MathMax(a.minY, b.minY), MathMin(a.maxY, b.maxY)), R(2)))
SATContact == SATCalled /\ ~last.result.isNull
UnitNormal(info) == info.normal # NaNVec /\ lengthSquared(info.normal) = One
SoundDepth(info) == IsFinite(info.depth) /\ Ge(info.depth, Zero)

\* C21: a contact returned by the SAT detector has a unit normal pointing
\* from A toward B, a finite depth >= 0, and the midpoint of the intersection
\* of the two bounding boxes as its contact point.
C21_ContactWellFormed ==
    SATContact =>
          /\ UnitNormal(last.result)
          /\ SoundDepth(last.result)
          /\ Ge(dot(last.result.normal,
                    subtract(ShapeCentre(last.shapeB), ShapeCentre(last.shapeA))), Zero)
          /\ last.result.contactPoint
                = BoxIntersectionMidpoint(getAABB(last.shapeA), getAABB(last.shapeB))

\* what does hold of a SAT contact between rectangles of finite coordinates
\* and positive size: a unit normal and a finite depth >= 0
C21_HoldsOfNormalLengthAndDepth ==
    (SATContact /\ \A o \in Overlaps : IsFinite(o)
                   /\ Gt(last.shapeA.width, Zero) /\ Gt(last.shapeB.width, Zero)) =>
          UnitNormal(last.result) /\ SoundDepth(last.result)


----------------------------------------------------------------------------
\* the orders in which the keys of a registry can have been inserted
InsertionOrders(reg) ==
    { order \in [1..Cardinality(DOMAIN reg) -> DOMAIN reg] :
          \A i, j \in DOMAIN order : order[i] = order[j] => i = j }

RECURSIVE SumTorques(_, _, _)
SumTorques(fs, id, bs) ==
    IF fs = <<>> THEN Zero
    ELSE Add(Sub(apply(Head(fs), id, bs).torqueAccumulator, bs[id].torqueAccumulator),
             SumTorques(Tail(fs), id, bs))

UpdatedForces == last.op = "updateForces" /\ ~last.threw

\* C22: updateForces(dt) applies every registered force to every registered
\* body before it integrates any body: each body is integrated with the sum
\* of its forces and torques as they follow from the positions and
\* velocities at the start of the call, whatever the insertion order of the
\* bodies in the registry.
C22_ForcesAppliedBeforeIntegration ==
    UpdatedForces =>
        /\ \A id \in DOMAIN forceBodyPairs :
              body[id] = integrate(
                  addTorque(addForce(last.pre.body[id],
                                     SumForces(forceBodyPairs[id], id, last.pre.body)),
                            SumTorques(forceBodyPairs[id], id, last.pre.body)),
                  last.dt)
        /\ \A order \in InsertionOrders(forceBodyPairs) :
              body = updateForcesInOrder(order, forceBodyPairs, last.pre.body, last.dt)

C22_Witness ==
    /\ UpdatedForces
    /\ DOMAIN forceBodyPairs = BodyIds
    /\ "spring" \in Range(forceBodyPairs[1]) /\ "spring" \in Range(forceBodyPairs[2])
    /\ ForceOn("spring", 2, last.pre.body) # ZeroVec
    /\ Gt(last.pre.body[2].mass, Zero)
    /\ body[1].position # last.pre.body[1].position
    /\ body[2].velocity # last.pre.body[2].velocity


----------------------------------------------------------------------------
\* EventEmitter: on, off and emit from outside and from inside listeners

MaxListeners == 3    \* length of one event type's listener array

\* a world without bodies and forces, for the runner and the emitter
EmptyWorld ==
    /\ body = <<>>
    /\ bodies = <<>>
    /\ forceBodyPairs = <<>>
    /\ ops = 0
    /\ entity = NoEntity
    /\ det = NoDetect
    /\ material = NoMaterial

InitEmitter ==
    /\ EmptyWorld
    /\ last = [op |-> "none"]
    /\ sim = NewSim

\* listeners that touch the listener array of the event they are called for
\* are registered for physics:step, a plain one for render:frame
ListenersFor(eventType) ==
    IF eventType = "physics:step" THEN {"log", "once", "remover", "adder"} ELSE {"log"}

EmitterOn ==
    /\ \E eventType \in {"physics:step", "render:frame"} :
          \E listener \in ListenersFor(eventType) :
             /\ Len(sim.listeners[eventType]) < MaxListeners
             /\ sim' = on(Fresh(sim), eventType, listener)
             /\ last' = [op |-> "on", type |-> eventType, listener |-> listener, pre |-> Fresh(sim)]
    /\ UNCHANGED <<body, bodies, forceBodyPairs, ops, entity, det, material>>

EmitterOff ==
    /\ \E eventType \in {"physics:step", "render:frame"} :
          \E listener \in ListenersFor(eventType) :
             /\ sim' = off(Fresh(sim), eventType, listener)
             /\ last' = [op |-> "off", type |-> eventType, listener |-> listener, pre |-> Fresh(sim)]
    /\ UNCHANGED <<body, bodies, forceBodyPairs, ops, entity, det, material>>

EmitterEmit ==
    /\ \E eventType \in {"physics:step", "render:frame", "simulation:started"} :
          /\ Len(emit(Fresh(sim), eventType).listeners[eventType]) <= MaxListeners
          /\ sim' = emit(Fresh(sim), eventType)
          /\ last' = [op |-> "emit", type |-> eventType, listener |-> "", pre |-> Fresh(sim)]
    /\ UNCHANGED <<body, bodies, forceBodyPairs, ops, entity, det, material>>

NextEmitter ==
    \/ EmitterOn
    \/ EmitterOff
    \/ EmitterEmit

SpecEmitter == InitEmitter /\ [][NextEmitter]_vars

\* the listeners registered for the emitted type when emit was called
RegisteredAtEmit == last.pre.listeners[last.type]
ExpectedCalls == [i \in DOMAIN RegisteredAtEmit |-> <<RegisteredAtEmit[i], last.type>>]

\* small occurs in big in its order, other elements possibly in between
RECURSIVE IsSubsequence(_, _)
IsSubsequence(small, big) ==
    IF small = <<>> THEN TRUE
    ELSE IF big = <<>> THEN FALSE
    ELSE IF Head(small) = Head(big) THEN IsSubsequence(Tail(small), Tail(big))
    ELSE IsSubsequence(small, Tail(big))

WithoutIndex(seq, k) == [i \in 1..(Len(seq) - 1) |-> IF i < k THEN seq[i] ELSE seq[i + 1]]

\* C25: emit calls every listener registered for the event's type at the
\* time of the call, once per registration and in registration order, and no
\* listener of another type, also when listeners call off or on for that
\* type meanwhile; off removes exactly one registration of the listener.
C25_EmitCallsEveryListenerOnce ==
    /\ last.op = "emit" =>
          /\ IsSubsequence(ExpectedCalls, sim.calls)
          /\ \A k \in DOMAIN sim.calls : sim.calls[k][2] = last.type
          /\ (\A i \in DOMAIN RegisteredAtEmit : RegisteredAtEmit[i] # "adder") =>
                sim.calls = ExpectedCalls
    /\ last.op = "off" =>
          /\ \A t \in EventTypes \ {last.type} : sim.listeners[t] = last.pre.listeners[t]
          /\ IF \E k \in DOMAIN last.pre.listeners[last.type] :
                    last.pre.listeners[last.type][k] = last.listener
             THEN \E k \in DOMAIN last.pre.listeners[last.type] :
                    /\ last.pre.listeners[last.type][k] = last.listener
                    /\ sim.listeners[last.type] = WithoutIndex(last.pre.listeners[last.type], k)
             ELSE sim.listeners[last.type] = last.pre.listeners[last.type]

\* the same when no listener registered for the type calls off
C25_HoldsWithoutOffInListeners ==
    (last.op = "emit" =>
        \A i \in DOMAIN RegisteredAtEmit : RegisteredAtEmit[i] \in {"log", "adder"})
    => C25_EmitCallsEveryListenerOnce


----------------------------------------------------------------------------
\* Runner: start, stop and the animation frames the browser runs

MaxFrames == 3    \* animation frames requested per behaviour

\* the time that passes between two readings of the clock, in ms: none (the
\* clock has a finite resolution), less than a frame at 60 Hz, and more
Elapsed == { Zero, R(10), R(100) }

InitRunner ==
    /\ EmptyWorld
    /\ last = [op |-> "none"]
    /\ sim = NewSim

\* eventEmitter.on(type, listener) before the runner is first started
RunnerOn ==
    /\ sim.nextFrameId = 1
    /\ \E eventType \in {"physics:step", "simulation:started"}, listener \in {"log", "stopper"} :
          /\ sim.listeners[eventType] = <<>>
          /\ sim' = on(Fresh(sim), eventType, listener)
          /\ last' = [op |-> "on", dt |-> Zero, pre |-> Fresh(sim)]
    /\ UNCHANGED <<body, bodies, forceBodyPairs, ops, entity, det, material>>

\* runner.start()
RunnerStart ==
    /\ sim.nextFrameId <= MaxFrames
    /\ sim' = start(Fresh(sim))
    /\ last' = [op |-> "start", dt |-> Zero, pre |-> Fresh(sim)]
    /\ UNCHANGED <<body, bodies, forceBodyPairs, ops, entity, det, material>>

\* runner.stop()
RunnerStop ==
    /\ sim' = stop(Fresh(sim))
    /\ last' = [op |-> "stop", dt |-> Zero, pre |-> Fresh(sim)]
    /\ UNCHANGED <<body, bodies, forceBodyPairs, ops, entity, det, material>>

\* the browser runs a requested frame: tick(timestamp) with the clock read
\* some time after its last reading; the empty world is stepped in place
RunnerFrame ==
    /\ sim.nextFrameId <= MaxFrames
    /\ \E frame \in sim.pending, elapsed \in Elapsed :
          /\ sim' = tick([Fresh(sim) EXCEPT !.pending = @ \ {frame},
                                            !.now = Add(@, elapsed)],
                         Add(sim.now, elapsed))
          /\ last' = [op |-> "tick",
                      dt |-> getDeltaTime([sim EXCEPT !.now = Add(@, elapsed)]),
                      pre |-> Fresh(sim)]
    /\ UNCHANGED <<body, bodies, forceBodyPairs, ops, entity, det, material>>

NextRunner ==
    \/ RunnerOn
    \/ RunnerStart
    \/ RunnerStop
    \/ RunnerFrame

SpecRunner == InitRunner /\ [][NextRunner]_vars

\* C23: once stop() has returned the simulation is stopped: no animation
\* frame is requested and the world is not stepped until start() is called,
\* also when stop() was called by a listener during a tick; start() while
\* running and stop() while stopped change nothing and emit no event.
C23_StoppedRunnerStaysStopped ==
    /\ (sim.constructed /\ ~sim.isRunning) => sim.pending = {}
    /\ (last.op = "tick" /\ sim.steps > 0) => last.pre.isRunning
    /\ (last.op = "start" /\ last.pre.isRunning) => sim = last.pre
    /\ (last.op = "stop" /\ ~last.pre.isRunning) => sim = last.pre

\* the same for runners whose listeners do not call stop()
C23_HoldsWithoutStopInListeners ==
    (sim.constructed /\ \A t \in EventTypes : \A i \in DOMAIN sim.listeners[t] :
                            sim.listeners[t][i] # "stopper")
        => C23_StoppedRunnerStaysStopped

\* C24: while the runner is running every tick completes, steps the world
\* with a delta time in (0, 1/60] and requests the next frame.
C24_RunningLoopKeepsStepping ==
    (last.op = "tick" /\ last.pre.isRunning /\ sim.isRunning) =>
        /\ ~sim.threw
        /\ sim.steps = 1
        /\ sim.pending # {}
        /\ Gt(last.dt, Zero) /\ Le(last.dt, Q(1, 60))

\* the same for the ticks that read a clock that has advanced
C24_HoldsWhenClockAdvanced ==
    (last.op = "tick" /\ sim.now # last.pre.now) => C24_RunningLoopKeepsStepping


----------------------------------------------------------------------------
\* linear momentum of the bodies of the resolved world

Momentum(bs) ==
    add(multiply(bs[1].velocity, bs[1].mass),
        add(multiply(bs[2].velocity, bs[2].mass), multiply(bs[3].velocity, bs[3].mass)))
Dynamic(b) == Gt(b.inverseMass, Zero) /\ b.inverseMass = Div(One, b.mass)
AllContactsDynamic ==
    \A k \in DOMAIN last.collisions :
        Dynamic(last.pre[last.collisions[k].bodyA]) /\ Dynamic(last.pre[last.collisions[k].bodyB])

\* C26: resolving contacts between bodies with inverseMass = 1/mass > 0
\* leaves the total linear momentum as it was, through the normal impulse
\* and the friction impulse of every contact.
C26_LinearMomentumPreserved ==
    (Resolved /\ AllContactsDynamic) => Momentum(body) = Momentum(last.pre)

C26_Witness ==
    /\ Resolved /\ AllContactsDynamic /\ ~Separating
    /\ PreA.mass # PreB.mass
    /\ Contact.normal # V(1, 0)
    /\ PreA.angularVelocity # Zero
    /\ FrictionImpulse # ZeroVec
    /\ PostA.velocity # PreA.velocity /\ PostB.velocity # PreB.velocity
    /\ Momentum(body) = Momentum(last.pre)


----------------------------------------------------------------------------
\* how often one step integrates a body

Stepped == last.op = "step" /\ ~last.threw
\* the bodies of the world with the registered forces applied, not integrated
ForcesApplied ==
    applyRegistered(DOMAIN last.pre.forceBodyPairs, last.pre.forceBodyPairs, last.pre.body)
Tracked(id) == \E i \in DOMAIN bodies : bodies[i] = id
TrackedTwice(id) == \E i, j \in DOMAIN bodies : i # j /\ bodies[i] = id /\ bodies[j] = id

\* C27: one step(dt) integrates every tracked body exactly once, also a body
\* added more than once and a body with registered forces; a body that is not
\* tracked (never added, or removed) is not integrated by the world's loop.
C27_StepIntegratesOnce ==
    Stepped =>
        \A id \in BodyIds :
            /\ Tracked(id) => body[id] = integrate(ForcesApplied[id], last.dt)
            /\ (~Tracked(id) /\ id \notin DOMAIN forceBodyPairs) => body[id] = last.pre.body[id]

\* the same for the worlds in which no tracked body is registered or added twice
C27_HoldsForPlainWorlds ==
    (\A id \in BodyIds : ~TrackedTwice(id) /\ ~(Tracked(id) /\ id \in DOMAIN forceBodyPairs))
        => C27_StepIntegratesOnce


----------------------------------------------------------------------------
\* the contacts one call of detectCollisions returns

Detected == last.op = "detectCollisions" /\ ~last.threw
PairOf(contact) == {contact.bodyA, contact.bodyB}
ListedTwice == \E i, j \in DOMAIN bodies : i # j /\ bodies[i] = bodies[j]

\* C28: detectCollisions never returns a contact whose bodyA and bodyB are
\* the same body, and at most one contact per unordered pair of bodies, for
\* every input array, also one that lists the same body more than once.
C28_NoSelfContactNoRepeatedPair ==
    Detected =>
        /\ \A k \in DOMAIN last.contacts : last.contacts[k].bodyA # last.contacts[k].bodyB
        /\ \A k, l \in DOMAIN last.contacts :
              k # l => PairOf(last.contacts[k]) # PairOf(last.contacts[l])

\* the same for the arrays that list every body once
C28_HoldsForDistinctBodies == ~ListedTwice => C28_NoSelfContactNoRepeatedPair


----------------------------------------------------------------------------
\* the bounding boxes of the shapes and the pairs the broad phase keeps

InsideBox(p, box) ==
    /\ Le(box.minX, p.x) /\ Le(p.x, box.maxX)
    /\ Le(box.minY, p.y) /\ Le(p.y, box.maxY)

\* the box contains every point of the shape: the corners of a rectangle or a
\* trapezoid, the disc of a circle
Encloses(box, s) ==
    IF s.type = "CIRCLE"
    THEN /\ InsideBox(Vector(Sub(s.center.x, s.radius), Sub(s.center.y, s.radius)), box)
         /\ InsideBox(Vector(Add(s.center.x, s.radius), Add(s.center.y, s.radius)), box)
    ELSE IF s.type = "TRAPEZOID"
    THEN \A k \in 1..4 : InsideBox(getVertices(s)[k], box)
    ELSE \A k \in 1..4 : InsideBox(getCorners(s)[k], box)

Clamp(x, lo, hi) == IF Lt(x, lo) THEN lo ELSE IF Lt(hi, x) THEN hi ELSE x
ProperRectangle(s) ==
    /\ s.type = "RECTANGLE"
    /\ IsFinite(s.position.x) /\ IsFinite(s.position.y)
    /\ IsFinite(s.width) /\ IsFinite(s.height)
    /\ Ge(s.width, Zero) /\ Ge(s.height, Zero)

\* the two shapes have a point in common (rectangles and circles)
Intersect(s, t) ==
    IF ProperRectangle(s) /\ ProperRectangle(t)
    THEN /\ Le(s.position.x, Add(t.position.x, t.width))
         /\ Le(t.position.x, Add(s.position.x, s.width))
         /\ Le(s.position.y, Add(t.position.y, t.height))
         /\ Le(t.position.y, Add(s.position.y, s.height))
    ELSE IF s.type = "CIRCLE" /\ t.type = "CIRCLE"
    THEN Le(lengthSquared(subtract(s.center, t.center)), Sq(Add(s.radius, t.radius)))
    ELSE IF s.type = "CIRCLE" /\ ProperRectangle(t)
    THEN Le(lengthSquared(Vector(
                Sub(s.center.x, Clamp(s.center.x, t.position.x, Add(t.position.x, t.width))),
                Sub(s.center.y, Clamp(s.center.y, t.position.y, Add(t.position.y, t.height))))),
            Sq(s.radius))
    ELSE IF ProperRectangle(s) /\ t.type = "CIRCLE"
    THEN Le(lengthSquared(Vector(
                Sub(t.center.x, Clamp(t.center.x, s.position.x, Add(s.position.x, s.width))),
                Sub(t.center.y, Clamp(t.center.y, s.position.y, Add(s.position.y, s.height))))),
            Sq(t.radius))
    ELSE FALSE

KeptByBroadPhase(i, j) ==
    \E k \in DOMAIN broadPhase(bodies, body) :
        broadPhase(bodies, body)[k] = <<bodies[i], bodies[j]>>

\* C29: the broad phase has no false negatives: getAABB() of every shape is a
\* valid box that encloses the whole shape, and every pair of bodies whose
\* shapes have a point in common is among the pairs the broad phase keeps.
C29_BoxesEncloseShapes ==
    /\ last.op = "getAABB" =>
          isValidAABB(last.result) /\ Encloses(last.result, last.shape)
    /\ last.op = "detectCollisions" =>
          \A i, j \in DOMAIN bodies :
              (i < j /\ Intersect(body[bodies[i]].shape, body[bodies[j]].shape))
                  => KeptByBroadPhase(i, j)

\* a rectangle or trapezoid of finite, non-negative size whose bottom edge
\* does not cross over beyond the top edge
ProperBox(s) ==
    \/ ProperRectangle(s)
    \/ /\ s.type = "TRAPEZOID"
       /\ Ge(s.width, Zero) /\ Ge(s.height, Zero)
       /\ Ge(bottomWidth(s), Neg(s.width))

\* the same for rectangles and trapezoids of that kind
C29_HoldsForProperBoxes ==
    /\ (last.op = "getAABB" /\ ProperBox(last.shape)) =>
          isValidAABB(last.result) /\ Encloses(last.result, last.shape)
    /\ (last.op = "detectCollisions"
            /\ \A i \in DOMAIN body : body[i].shape.type # "CIRCLE") =>
          \A i, j \in DOMAIN bodies :
              (i < j /\ Intersect(body[bodies[i]].shape, body[bodies[j]].shape))
                  => KeptByBroadPhase(i, j)


----------------------------------------------------------------------------
\* AABBAABBAlgorithm.detect with the arguments exchanged

BoxesDetected == det.called /\ det.alg = "AABBAABB"
Exchanged == AABBAABBAlgorithmDetect(det.b, det.a)
Opposite(n, m) == m.x = Neg(n.x) /\ m.y = Neg(n.y)
BoxCentreX(e) == Div(Add(getWorldAABB(e).minX, getWorldAABB(e).maxX), R(2))
BoxCentreY(e) == Div(Add(getWorldAABB(e).minY, getWorldAABB(e).maxY), R(2))

\* C30: detect(A, B) and detect(B, A) agree on whether the boxes collide and
\* report the same depth, the same contact point and exactly opposite
\* normals, also when the centres are equal on the chosen axis or the overlap
\* is equal on both axes.
C30_ExchangedArgumentsOppositeNormal ==
    BoxesDetected =>
        /\ det.result.isNull <=> Exchanged.isNull
        /\ ~det.result.isNull =>
              /\ Exchanged.depth = det.result.depth
              /\ Exchanged.contactPoint = det.result.contactPoint
              /\ Opposite(det.result.normal, Exchanged.normal)

\* the same for the boxes whose centres differ on the axis of the normal
C30_HoldsForDistinctCentres ==
    (BoxesDetected /\ ~det.result.isNull
        /\ (IF det.result.normal.x # Zero
            THEN BoxCentreX(det.a) = BoxCentreX(det.b)
            ELSE BoxCentreY(det.a) = BoxCentreY(det.b)))
    \/ C30_ExchangedArgumentsOppositeNormal

====
